---- MODULE Spec2Model ----
(***************************************************************************)
(* A model of the attribute resolution core of usrbinkat/si:               *)
(*   - the AttributeContext builder and AttributeValue store               *)
(*     (lib/dal/src/deculture/attribute/value.rs),                         *)
(*   - the frame composition handler                                       *)
(*     (lib/sdf-server/.../diagram/connect_component_to_frame.rs).         *)
(*   - the builtin migrations binding props (lib/dal/.../aws/vpc.rs).      *)
(* The specifications share the variables: SpecCtx (context builder),     *)
(* SpecLookup, SpecProxy, SpecIndex, SpecInsert, SpecLinks (value store),  *)
(* SpecBuiltins, SpecInstall, SpecMigrate, SpecPropagateFair (migrations), *)
(* SpecFrame and SpecConcurrent (wiring).                                  *)
(***************************************************************************)
EXTENDS Integers, Sequences, FiniteSets, TLC

VARIABLES
    \* --- context builder ---
    builder,        \* the AttributeContextBuilder in hand (six fields)
    ctxResult,      \* result of the last to_context()/find_for_prop on it
    \* --- value store ---
    values,         \* attribute_values table: sequence of rows, id = position
    handle,         \* an AttributeValue object loaded in memory (or NoHandle)
    storeResult,    \* what the last store operation returned to its caller
    created,        \* history: the (context, id) of every successful AttributeValue::new
    insertedAt,     \* history: logical time at which a child entered handle's index_map
    clock,          \* history: number of index_map pushes so far
    prototypes,     \* attribute_prototypes table: sequence of rows, id = position
    links,          \* the belongs_to tables of a value: its parent value, its prototype
    \* --- frame wiring ---
    parentType,     \* ComponentType of the parent component
    parentSockets,  \* provider sockets of the parent's schema variant
    childSockets,   \* provider sockets of the children's schema variant
    avMissing,      \* index of the parent socket whose provider has no attribute value (0: none)
    db,             \* committed state: connections, edges, provider links, jobs, events
    req,            \* the request in flight: position, arguments, transaction-local writes
    other,          \* a second request in flight, in a transaction of its own, not running now
    log,            \* history: the requests begun, in order, and how each ended
    \* --- builtin migrations ---
    schemas         \* the schemas installed, the migration in progress, the job queue

ctxVars   == <<builder, ctxResult>>
storeVars == <<values, handle, storeResult, created, insertedAt, clock, prototypes, links>>
worldVars == <<parentType, parentSockets, childSockets, avMissing, schemas>>
frameVars == <<parentType, parentSockets, childSockets, avMissing, schemas, db, req, other, log>>
vars      == <<builder, ctxResult, values, handle, storeResult, created, insertedAt, clock,
               prototypes, links,
               parentType, parentSockets, childSockets, avMissing, db, req, other, log,
               schemas>>

\* The "unset" sentinel of every id type (PropId::NONE, InternalProviderId::NONE, ...).
NONE == -1

\* Bounds of the model.
MaxId == 2
MaxValues == 3
MaxKeys == 3
MaxReturnValues == 2
MaxParentSockets == 2
MaxChildSockets == 2
MaxRuns == 2

Ids == 1..MaxId
IdOrNone == Ids \cup {NONE}

(***************************************************************************)
(* 1. AttributeContext and its builder                                     *)
(***************************************************************************)

\* AttributeContext::builder(): every field unset.
DefaultBuilder ==
    [prop_id |-> NONE, internal_provider_id |-> NONE, external_provider_id |-> NONE,
     schema_id |-> NONE, schema_variant_id |-> NONE, component_id |-> NONE]

\* Number of concrete discriminator (least-specific-kind) fields of a context.
Discriminators(c) ==
    (IF c.prop_id # NONE THEN 1 ELSE 0)
    + (IF c.internal_provider_id # NONE THEN 1 ELSE 0)
    + (IF c.external_provider_id # NONE THEN 1 ELSE 0)

NoResult == [op |-> "none", status |-> "none", ctx |-> DefaultBuilder, id |-> NONE]

\* What a caller holds after `?`: the context, or the typed error and no context.
Built(op, r) == [op |-> op, status |-> r.status, ctx |-> r.ctx, id |-> NONE]

\* Mutant of to_context: the validation counts only two of the three discriminators.
to_context_skips_external(b) ==
    IF (IF b.prop_id # NONE THEN 1 ELSE 0)
       + (IF b.internal_provider_id # NONE THEN 1 ELSE 0) <= 1
    THEN [status |-> "Ok", ctx |-> b]
    ELSE [status |-> "AttributeContextBuilder", ctx |-> DefaultBuilder]

\* AttributeContextBuilder::to_context(): a validation error unless zero or
\* exactly one discriminator is set; the scoping fields are not inspected.
to_context(b) ==
    IF Discriminators(b) <= 1
    THEN [status |-> "Ok", ctx |-> b]
    ELSE [status |-> "AttributeContextBuilder", ctx |-> DefaultBuilder]

BuilderNew ==
    /\ builder' = DefaultBuilder
    /\ ctxResult' = NoResult
    /\ UNCHANGED <<storeVars, frameVars>>

SetField(f, id) ==
    /\ builder' = [builder EXCEPT ![f] = id]
    /\ ctxResult' = NoResult
    /\ UNCHANGED <<storeVars, frameVars>>

set_prop_id              == \E id \in IdOrNone : SetField("prop_id", id)
set_internal_provider_id == \E id \in IdOrNone : SetField("internal_provider_id", id)
set_external_provider_id == \E id \in IdOrNone : SetField("external_provider_id", id)
set_schema_id            == \E id \in IdOrNone : SetField("schema_id", id)
set_schema_variant_id    == \E id \in IdOrNone : SetField("schema_variant_id", id)
set_component_id         == \E id \in IdOrNone : SetField("component_id", id)

ToContext ==
    /\ ctxResult.status = "none"
    /\ ctxResult' = Built("to_context", to_context(builder))
    /\ UNCHANGED <<builder, storeVars, frameVars>>

\* Mutant of find_for_prop's context: the prop id is also written to the
\* internal provider field.
prop_context_two_fields(prop_id) ==
    [DefaultBuilder EXCEPT !.prop_id = prop_id, !.internal_provider_id = prop_id]

\* The builder find_for_prop hands to to_context: builder().set_prop_id(prop_id).
prop_context(prop_id) ==
    [DefaultBuilder EXCEPT !.prop_id = prop_id]

\* The rows FIND_FOR_PROP is asked for: those of the context it is given.
FindForPropRows(rows, context) == {i \in DOMAIN rows : rows[i].context = context}

\* txn.query_one(FIND_FOR_PROP, ..)?: a Pg error unless exactly one row comes
\* back.
query_one(found) ==
    IF Cardinality(found) = 1
    THEN [status |-> "Ok", id |-> CHOOSE i \in found : TRUE]
    ELSE [status |-> "Pg", id |-> NONE]

\* standard_model::object_from_row(row)?: the object, or StandardModelError
\* when the row does not decode (decodes is not decided by anything modelled).
object_from_row(row, decodes) ==
    IF row.status # "Ok" THEN row
    ELSE IF decodes THEN row
    ELSE [status |-> "StandardModelError", id |-> NONE]

\* AttributeValue::find_for_prop: the context is a local of the function, built
\* from a builder of its own; a failed build is returned through `?` as
\* AttributeValueError::AttributeContextBuilder, a query that does not give one
\* row as Pg, a row that does not decode as StandardModelError.
find_for_prop ==
    \E prop_id \in Ids, decodes \in BOOLEAN :
        LET built == to_context(prop_context(prop_id))
            object == object_from_row(query_one(FindForPropRows(values, built.ctx)), decodes)
        IN  /\ ctxResult' = IF built.status # "Ok"
                            THEN Built("find_for_prop", built)
                            ELSE [op |-> "find_for_prop", status |-> object.status,
                                  ctx |-> built.ctx, id |-> object.id]
            /\ UNCHANGED <<builder, storeVars, frameVars>>

(***************************************************************************)
(* 2. The value store: rows of attribute_values                            *)
(***************************************************************************)

\* Option<IndexMap>: None, or the ordered child entries.
NoIndexMap == [some |-> FALSE, order |-> <<>>]
EmptyIndexMap == [some |-> TRUE, order |-> <<>>]

\* Mutant of NewRow: the component of the context is not written to the row.
NewRow_drops_component(func_binding_return_value_id, context, key) ==
    [context |-> [context EXCEPT !.component_id = NONE],
     func_binding_return_value_id |-> func_binding_return_value_id,
     proxy_for_attribute_value_id |-> NONE,
     sealed_proxy |-> FALSE,
     index_map |-> NoIndexMap,
     key |-> key]

\* The row AttributeValue::new asks attribute_value_create_v1 to insert: the
\* context, return value and key it was given; no proxy, not sealed.
NewRow(func_binding_return_value_id, context, key) ==
    [context |-> context,
     func_binding_return_value_id |-> func_binding_return_value_id,
     proxy_for_attribute_value_id |-> NONE,
     sealed_proxy |-> FALSE,
     index_map |-> NoIndexMap,
     key |-> key]

\* attribute_value_create_v1: allocates the next id; refuses a second row for
\* an equivalent (context, key), which the caller of the query sees as a
\* PgError.
attribute_value_create_v1(rows, row) ==
    IF \E i \in DOMAIN rows : rows[i].context = row.context /\ rows[i].key = row.key
    THEN [status |-> "Pg", rows |-> rows, id |-> NONE]
    ELSE [status |-> "Ok", rows |-> Append(rows, row), id |-> Len(rows) + 1]

\* The belongs_to tables of attribute_values, both empty: pairs <<value, parent
\* value>> and <<value, prototype>>.
NoLinks == [parent |-> {}, prototype |-> {}]

NoStoreResult == [op |-> "none", status |-> "none", context |-> DefaultBuilder, id |-> NONE]

\* The caller of the store is sequential: its next call starts when the call
\* before has returned ("await": AttributeValue::new stands between its two
\* awaits).
Returned == storeResult.status # "await"

\* AttributeValue::new up to its first await (lines 111-122): the query that
\* inserts the row; a refused insert is returned through `?` as
\* AttributeValueError::Pg.  The parent's index_map is not touched.
AttributeValue_new(func_binding_return_value_id, context, key) ==
    LET r == attribute_value_create_v1(
                 values, NewRow(func_binding_return_value_id, context, key))
    IN  /\ Returned
        /\ values' = r.rows
        /\ storeResult' = [op |-> "new",
                           status |-> IF r.status = "Ok" THEN "await" ELSE r.status,
                           context |-> context, id |-> r.id]
        /\ created' = IF r.status = "Ok"
                      THEN Append(created, [context |-> context, id |-> r.id])
                      ELSE created
        /\ UNCHANGED <<handle, insertedAt, clock, prototypes, links, ctxVars, frameVars>>

\* AttributeValue::new called on a store of fewer than MaxValues rows.
AttributeValueNew(func_binding_return_value_id, context, key) ==
    /\ Len(values) < MaxValues
    /\ AttributeValue_new(func_binding_return_value_id, context, key)

\* AttributeValue::new from its first await to its return (lines 123-137):
\* finish_create_from_row(..)? gives the object, or StandardModelError when
\* the row does not decode; the row stays as the query wrote it.
FinishCreate ==
    \E decodes \in BOOLEAN :
        /\ storeResult.op = "new" /\ storeResult.status = "await"
        /\ storeResult' = [storeResult EXCEPT
                               !.status = IF decodes THEN "Ok" ELSE "StandardModelError",
                               !.id = IF decodes THEN @ ELSE NONE]
        /\ UNCHANGED <<values, handle, created, insertedAt, clock, prototypes, links,
                       ctxVars, frameVars>>

\* Option::None of an AttributeReadContext field: the field is not constrained.
ANY == NONE - 1

\* Specificity of a stored context: component > schema variant > schema > global.
Rank(c) ==
    IF c.component_id # NONE THEN 3
    ELSE IF c.schema_variant_id # NONE THEN 2
    ELSE IF c.schema_id # NONE THEN 1
    ELSE 0

\* A discriminator field matches exactly; a scoping field matches when the row
\* is at the requested scope or is unset there (less specific).
MatchesExact(want, have) == want = ANY \/ have = want
MatchesScope(want, have) == want = ANY \/ have = want \/ have = NONE

InContext(rc, c) ==
    /\ MatchesExact(rc.prop_id, c.prop_id)
    /\ MatchesExact(rc.internal_provider_id, c.internal_provider_id)
    /\ MatchesExact(rc.external_provider_id, c.external_provider_id)
    /\ MatchesScope(rc.schema_id, c.schema_id)
    /\ MatchesScope(rc.schema_variant_id, c.schema_variant_id)
    /\ MatchesScope(rc.component_id, c.component_id)

MinOf(S) == CHOOSE x \in S : \A y \in S : x <= y

RowsAt(rows, rc, level) ==
    {i \in DOMAIN rows : InContext(rc, rows[i].context) /\ Rank(rows[i].context) = level}

\* Mutant of find_for_context: the fallback starts at the least specific level.
RECURSIVE FindFromBelow(_, _, _)
FindFromBelow(rows, rc, level) ==
    IF level > 3 THEN NONE
    ELSE IF RowsAt(rows, rc, level) # {} THEN MinOf(RowsAt(rows, rc, level))
    ELSE FindFromBelow(rows, rc, level + 1)

find_for_context_least_specific(rows, rc) == FindFromBelow(rows, rc, 0)

\* The fallback of a lookup: component level first, then schema variant, schema, global.
RECURSIVE FindFromLevel(_, _, _)
FindFromLevel(rows, rc, level) ==
    IF level < 0 THEN NONE
    ELSE IF RowsAt(rows, rc, level) # {} THEN MinOf(RowsAt(rows, rc, level))
    ELSE FindFromLevel(rows, rc, level - 1)

\* AttributeValue::find_for_context: the id of the most specific row in the
\* read context, or NONE (Option::None) when there is none.
find_for_context(rows, rc) == FindFromLevel(rows, rc, 3)

FindForContext(rc) ==
    /\ Returned
    /\ storeResult' = [op |-> "find_for_context", status |-> "Ok", context |-> rc,
                       id |-> find_for_context(values, rc)]
    /\ UNCHANGED <<values, handle, created, insertedAt, clock, prototypes, links, ctxVars, frameVars>>

(***************************************************************************)
(* 3. Accessors of a row (standard_model_accessor!)                        *)
(***************************************************************************)

\* Getter func_binding_return_value_id(): the row's own column.
func_binding_return_value_id(rows, id) == rows[id].func_binding_return_value_id

\* set_func_binding_return_value_id: updates that one row.
set_func_binding_return_value_id(rows, id, v) ==
    [rows EXCEPT ![id].func_binding_return_value_id = v]

\* set_proxy_for_attribute_value_id: updates that one row.
set_proxy_for_attribute_value_id(rows, id, v) ==
    [rows EXCEPT ![id].proxy_for_attribute_value_id = v]

\* set_sealed_proxy: stores the boolean it is given.
set_sealed_proxy(rows, id, v) ==
    [rows EXCEPT ![id].sealed_proxy = v]

SetFuncBindingReturnValueId ==
    \E id \in DOMAIN values, v \in {NONE} \cup (1..MaxReturnValues) :
        /\ Returned
        /\ values' = set_func_binding_return_value_id(values, id, v)
        /\ UNCHANGED <<handle, storeResult, created, insertedAt, clock, prototypes, links, ctxVars, frameVars>>

SetProxyForAttributeValueId ==
    \E id \in DOMAIN values : \E v \in {NONE} \cup (DOMAIN values \ {id}) :
        /\ Returned
        /\ values' = set_proxy_for_attribute_value_id(values, id, v)
        /\ UNCHANGED <<handle, storeResult, created, insertedAt, clock, prototypes, links, ctxVars, frameVars>>

SetSealedProxy ==
    \E id \in DOMAIN values, v \in BOOLEAN :
        /\ Returned
        /\ values' = set_sealed_proxy(values, id, v)
        /\ UNCHANGED <<handle, storeResult, created, insertedAt, clock, prototypes, links, ctxVars, frameVars>>

(***************************************************************************)
(* 4. index_map of a loaded AttributeValue                                 *)
(***************************************************************************)

NoHandle == [id |-> NONE, index_map |-> NoIndexMap, saved |-> TRUE]

Keys == 1..MaxKeys

\* History of a key: when it was pushed, into whose index_map, and whether it
\* was removed since.
NeverInserted == [at |-> 0, into |-> NONE, removed |-> FALSE]

\* Bound: the logical time of the history of index_map entries.
MaxClock == 4

\* The index of a key in an order (0 when it is not there).
IndexOf(order, key) ==
    IF \E i \in DOMAIN order : order[i] = key
    THEN CHOOSE i \in DOMAIN order : order[i] = key
    ELSE 0

\* The orders an IndexMap can have: every key at most once.
Orders ==
    {<<>>} \cup {<<k>> : k \in Keys}
    \cup {<<j, k>> : j, k \in Keys} \cup {<<i, j, k>> : i, j, k \in Keys}

IndexMaps ==
    {NoIndexMap}
    \cup {[some |-> TRUE, order |-> o] :
             o \in {x \in Orders : \A i, j \in DOMAIN x : i # j => x[i] # x[j]}}

\* History of a map put in place whole for value p at time c: its entries
\* were inserted in its order; a key p held and the map does not hold is as
\* never inserted.
Replaced(h, c, p, index_map) ==
    [k \in Keys |->
        IF IndexOf(index_map.order, k) # 0
        THEN [at |-> c + IndexOf(index_map.order, k), into |-> p, removed |-> FALSE]
        ELSE IF h[k].into = p THEN NeverInserted ELSE h[k]]

\* get_by_id: a copy of the row in memory.
GetById ==
    \E id \in DOMAIN values :
        /\ Returned
        /\ handle.id = NONE
        /\ handle' = [id |-> id, index_map |-> values[id].index_map, saved |-> TRUE]
        /\ storeResult' = [op |-> "get_by_id", status |-> "Ok",
                           context |-> values[id].context, id |-> id]
        /\ UNCHANGED <<values, created, insertedAt, clock, prototypes, links, ctxVars, frameVars>>

\* The object goes out of scope (AttributeValue has no Drop): what was changed
\* in memory and not stored is lost, and the history of the value's entries is
\* that of the map its row holds.
DropHandle ==
    /\ Returned
    /\ handle.id # NONE
    /\ handle.saved \/ clock + Len(values[handle.id].index_map.order) <= MaxClock
    /\ handle' = NoHandle
    /\ insertedAt' = IF handle.saved THEN insertedAt
                     ELSE Replaced(insertedAt, clock, handle.id, values[handle.id].index_map)
    /\ clock' = IF handle.saved THEN clock
                ELSE clock + Len(values[handle.id].index_map.order)
    /\ UNCHANGED <<values, storeResult, created, prototypes, links, ctxVars, frameVars>>

\* The maps a caller may put in place of the one value p has: of keys that are
\* in no other value's map.
MapsFor(p) ==
    {m \in IndexMaps :
        /\ \A i \in DOMAIN m.order : insertedAt[m.order[i]].into \in {NONE, p}
        /\ clock + Len(m.order) <= MaxClock}

\* set_index_map(value): the setter standard_model_accessor! generates takes
\* any Option<IndexMap>, at any time; it updates the column of the row and the
\* field of the object.
SetIndexMap ==
    \E index_map \in MapsFor(handle.id) :
        /\ Returned
        /\ handle.id # NONE
        /\ index_map # handle.index_map \/ ~handle.saved
        /\ handle' = [handle EXCEPT !.index_map = index_map, !.saved = TRUE]
        /\ values' = [values EXCEPT ![handle.id].index_map = index_map]
        /\ insertedAt' = Replaced(insertedAt, clock, handle.id, index_map)
        /\ clock' = clock + Len(index_map.order)
        /\ storeResult' = [op |-> "set_index_map", status |-> "Ok",
                           context |-> values[handle.id].context, id |-> handle.id]
        /\ UNCHANGED <<created, prototypes, links, ctxVars, frameVars>>

\* value.index_map = ..: the field is public, so a caller can assign it; the
\* row is as it was until update_stored_index_map.
AssignIndexMap ==
    \E index_map \in MapsFor(handle.id) :
        /\ Returned
        /\ handle.id # NONE
        /\ index_map # handle.index_map
        /\ handle' = [handle EXCEPT !.index_map = index_map, !.saved = FALSE]
        /\ insertedAt' = Replaced(insertedAt, clock, handle.id, index_map)
        /\ clock' = clock + Len(index_map.order)
        /\ UNCHANGED <<values, storeResult, created, prototypes, links, ctxVars, frameVars>>

\* set_key(value): the generated setter stores any Option<String> as the key
\* of the row; no index_map is looked at.
SetKey ==
    \E id \in DOMAIN values, key \in {NONE} \cup Keys :
        /\ Returned
        /\ values[id].key # key
        /\ values' = [values EXCEPT ![id].key = key]
        /\ storeResult' = [op |-> "set_key", status |-> "Ok",
                           context |-> values[id].context, id |-> id]
        /\ UNCHANGED <<handle, created, insertedAt, clock, prototypes, links, ctxVars, frameVars>>

\* Mutant of IndexMap::push: the new entry goes to the front.
index_map_push_front(index_map, key) ==
    [index_map EXCEPT !.order = <<key>> \o @]

\* IndexMap::push: the entry is appended to the order; a key the map holds
\* already moves to the end (last-write order).
index_map_push(index_map, key) ==
    [index_map EXCEPT !.order = Append(SelectSeq(@, LAMBDA k : k # key), key)]

\* IndexMap::remove: the entry leaves the order; the others keep their places.
index_map_remove(index_map, key) ==
    [index_map EXCEPT !.order = SelectSeq(@, LAMBDA k : k # key)]

\* index_map_mut(): Some(&mut IndexMap) of the object in memory, None when the
\* value has no index_map.
index_map_mut(self) == self.index_map

\* A new child is pushed through index_map_mut(); nothing is stored yet.
IndexMapPush ==
    \E key \in Keys :
        /\ Returned
        /\ handle.id # NONE
        /\ index_map_mut(handle).some
        /\ insertedAt[key] = NeverInserted
        /\ clock < MaxClock
        /\ handle' = [handle EXCEPT !.index_map = index_map_push(index_map_mut(handle), key),
                                    !.saved = FALSE]
        /\ clock' = clock + 1
        /\ insertedAt' = [insertedAt EXCEPT ![key] =
                              [at |-> clock + 1, into |-> handle.id, removed |-> FALSE]]
        /\ UNCHANGED <<values, storeResult, created, prototypes, links, ctxVars, frameVars>>

IndexMapRemove ==
    \E key \in Keys :
        /\ Returned
        /\ handle.id # NONE
        /\ index_map_mut(handle).some
        /\ insertedAt[key].into = handle.id
        /\ ~insertedAt[key].removed
        /\ handle' = [handle EXCEPT !.index_map = index_map_remove(index_map_mut(handle), key),
                                    !.saved = FALSE]
        /\ insertedAt' = [insertedAt EXCEPT ![key].removed = TRUE]
        /\ UNCHANGED <<values, storeResult, created, clock, prototypes, links, ctxVars, frameVars>>

\* Mutant of update_stored_index_map: the row is left as it was.
update_stored_index_map_skipped(rows, self) == rows

\* update_stored_index_map: standard_model::update of column index_map of the
\* row self.id() with self.index_map.
update_stored_index_map(rows, self) ==
    [rows EXCEPT ![self.id].index_map = self.index_map]

UpdateStoredIndexMap ==
    /\ Returned
    /\ handle.id # NONE
    /\ ~handle.saved
    /\ values' = update_stored_index_map(values, handle)
    /\ handle' = [handle EXCEPT !.saved = TRUE]
    /\ storeResult' = [op |-> "update_stored_index_map", status |-> "Ok",
                       context |-> values[handle.id].context, id |-> handle.id]
    /\ UNCHANGED <<created, insertedAt, clock, prototypes, links, ctxVars, frameVars>>


(***************************************************************************)
(* 5. Prototypes and the belongs_to links of a value                       *)
(***************************************************************************)

\* Bound: the functions a prototype may be bound to are 1..MaxFuncId.
MaxFuncId == 2

\* The identity function the builtin migrations bind (setup_identity_func).
identity_func_id == 1

\* The props of the schema variants of vpc.rs, by the names it gives them (the
\* "Description" prop has no name there): those its create_prop calls make,
\* and those of the root SchemaVariant::new makes that it names (/root/si,
\* /root/domain and /root/si/name).
region_prop == 1
tags_map_prop == 2
tags_map_item_prop == 3
group_id_prop == 4
group_name_prop == 5
security_group_id_prop == 6
si_name_prop == 7
protocol_prop == 8
to_port_prop == 9
from_port_prop == 10
cidr_prop == 11
aws_resource_type_prop == 12
description_prop == 13
vpc_id_prop == 14
si_prop_id == 15
domain_prop_id == 16

\* The PropKind a prop is created with: the tags are a Map, the ports Integers,
\* /root/si and /root/domain Objects, every other prop a String.
PropKindOf(prop_id) ==
    CASE prop_id = tags_map_prop -> "Map"
      [] prop_id \in {to_port_prop, from_port_prop} -> "Integer"
      [] prop_id \in {si_prop_id, domain_prop_id} -> "Object"
      [] OTHER -> "String"

\* The parent a prop is created under: the tags map for its item, /root/si for
\* the name, /root/domain for every other prop create_prop makes (the parent
\* of /root/si and /root/domain, the root, is not named in vpc.rs).
ParentOfProp(prop_id) ==
    CASE prop_id = tags_map_item_prop -> tags_map_prop
      [] prop_id = si_name_prop -> si_prop_id
      [] prop_id \in {si_prop_id, domain_prop_id} -> NONE
      [] OTHER -> domain_prop_id

\* lookup_fn of a belongs_to table: the one row the value has there, or none.
belongs_to(table, id) ==
    IF \E l \in table : l[1] = id
    THEN (CHOOSE l \in table : l[1] = id)[2]
    ELSE NONE

\* unset_fn of a belongs_to table: the value's row is removed.
unset_belongs_to(table, id) == {l \in table : l[1] # id}

\* Mutant of set_belongs_to: the link is not stored.
set_belongs_to_not_stored(table, id, belongs_to_id) == table

\* set_fn of a belongs_to table: the value's row is replaced; the macro takes
\* any id of the other table and looks at neither row.
set_belongs_to(table, id, belongs_to_id) ==
    unset_belongs_to(table, id) \cup {<<id, belongs_to_id>>}

\* AttributeValue::parent_attribute_value and ::attribute_prototype.
parent_attribute_value(l, id) == belongs_to(l.parent, id)
attribute_prototype(l, id) == belongs_to(l.prototype, id)

\* AttributePrototype::new: the prototype row and, at the same context, the
\* value it produces, linked to it.
AttributePrototypeNew(func_id, context, key) ==
    LET r == attribute_value_create_v1(values, NewRow(NONE, context, key))
    IN  /\ Returned
        /\ Len(values) < MaxValues
        /\ values' = r.rows
        /\ prototypes' = IF r.status = "Ok"
                         THEN Append(prototypes, [func_id |-> func_id, context |-> context])
                         ELSE prototypes
        /\ links' = IF r.status = "Ok"
                    THEN [links EXCEPT !.prototype =
                              set_belongs_to(@, r.id, Len(prototypes) + 1)]
                    ELSE links
        /\ storeResult' = [op |-> "prototype_new", status |-> r.status,
                           context |-> context, id |-> r.id]
        /\ created' = IF r.status = "Ok"
                      THEN Append(created, [context |-> context, id |-> r.id])
                      ELSE created
        /\ UNCHANGED <<handle, insertedAt, clock, ctxVars, frameVars>>

\* Bound: the children inserted under the map values.
MaxInserts == 3

\* AttributeValue::insert_for_context(ctx, context, parent, None, Some(key)): the
\* child is created at the item context with the key and with the prototype
\* that produces it (no function bound yet), linked under the parent, and its
\* key appended to the parent's index_map, which is stored.  A create that is
\* refused leaves everything as it was.
insert_for_context(rows, l, protos, context, parent_attribute_value_id, key) ==
    LET r == attribute_value_create_v1(rows, NewRow(NONE, context, key))
        parent == [id |-> parent_attribute_value_id,
                   index_map |-> index_map_push(rows[parent_attribute_value_id].index_map, key)]
    IN  IF r.status # "Ok"
        THEN [status |-> r.status, rows |-> rows, links |-> l, prototypes |-> protos,
              id |-> NONE]
        ELSE [status |-> "Ok",
              rows |-> update_stored_index_map(r.rows, parent),
              links |-> [l EXCEPT !.parent =
                                      set_belongs_to(@, r.id, parent_attribute_value_id),
                                  !.prototype =
                                      set_belongs_to(@, r.id, Len(protos) + 1)],
              prototypes |-> Append(protos, [func_id |-> NONE, context |-> context]),
              id |-> r.id]

\* The contexts of the items of a map prop: at the schema variant's level and
\* at the level of a component.
ItemContexts ==
    LET variant == [DefaultBuilder EXCEPT !.prop_id = 3, !.schema_id = 1,
                                          !.schema_variant_id = 1]
    IN  {variant, [variant EXCEPT !.component_id = 1]}

\* insert_for_context under a value that is a map (it has an index_map).
InsertForContext ==
    \E context \in ItemContexts, parent \in DOMAIN values, key \in Keys :
        /\ Returned
        /\ values[parent].index_map.some
        /\ Len(created) < MaxInserts
        /\ LET r == insert_for_context(values, links, prototypes, context, parent, key)
           IN  /\ values' = r.rows
               /\ links' = r.links
               /\ prototypes' = r.prototypes
               /\ storeResult' = [op |-> "insert_for_context", status |-> r.status,
                                  context |-> context, id |-> r.id]
               /\ created' = Append(created, [context |-> context, id |-> r.id])
        /\ UNCHANGED <<handle, insertedAt, clock, ctxVars, frameVars>>

\* set_attribute_prototype(value, prototype id).
SetAttributePrototype ==
    \E id \in DOMAIN values, prototype_id \in DOMAIN prototypes :
        /\ Returned
        /\ links' = [links EXCEPT !.prototype = set_belongs_to(@, id, prototype_id)]
        /\ storeResult' = [op |-> "set_attribute_prototype", status |-> "Ok",
                           context |-> values[id].context, id |-> id]
        /\ UNCHANGED <<values, prototypes, handle, created, insertedAt, clock,
                       ctxVars, frameVars>>

\* unset_attribute_prototype(value).
UnsetAttributePrototype ==
    \E id \in DOMAIN values :
        /\ Returned
        /\ attribute_prototype(links, id) # NONE
        /\ links' = [links EXCEPT !.prototype = unset_belongs_to(@, id)]
        /\ storeResult' = [op |-> "unset_attribute_prototype", status |-> "Ok",
                           context |-> values[id].context, id |-> id]
        /\ UNCHANGED <<values, prototypes, handle, created, insertedAt, clock,
                       ctxVars, frameVars>>

\* set_parent_attribute_value(child, parent value id).
SetParentAttributeValue ==
    \E id \in DOMAIN values : \E parent_id \in DOMAIN values \ {id} :
        /\ Returned
        /\ links' = [links EXCEPT !.parent = set_belongs_to(@, id, parent_id)]
        /\ storeResult' = [op |-> "set_parent_attribute_value", status |-> "Ok",
                           context |-> values[id].context, id |-> id]
        /\ UNCHANGED <<values, prototypes, handle, created, insertedAt, clock,
                       ctxVars, frameVars>>

\* unset_parent_attribute_value(child).
UnsetParentAttributeValue ==
    \E id \in DOMAIN values :
        /\ Returned
        /\ parent_attribute_value(links, id) # NONE
        /\ links' = [links EXCEPT !.parent = unset_belongs_to(@, id)]
        /\ storeResult' = [op |-> "unset_parent_attribute_value", status |-> "Ok",
                           context |-> values[id].context, id |-> id]
        /\ UNCHANGED <<values, prototypes, handle, created, insertedAt, clock,
                       ctxVars, frameVars>>

\* AttributePrototype::set_func_id: the function column of that one row.
set_func_id(rows, id, func_id) == [rows EXCEPT ![id].func_id = func_id]

SetFuncId ==
    \E id \in DOMAIN prototypes, func_id \in 1..MaxFuncId :
        /\ Returned
        /\ prototypes[id].func_id # func_id
        /\ prototypes' = set_func_id(prototypes, id, func_id)
        /\ storeResult' = [op |-> "set_func_id", status |-> "Ok",
                           context |-> prototypes[id].context, id |-> id]
        /\ UNCHANGED <<values, links, handle, created, insertedAt, clock,
                       ctxVars, frameVars>>


(***************************************************************************)
(* 6. Frame wiring: connect_component_to_frame                             *)
(***************************************************************************)

ComponentTypes == {"Component", "ConfigurationFrame", "AggregationFrame"}

NoProvider == [id |-> NONE, name |-> ""]

\* The two frame sockets every schema variant carries; they back no provider.
FrameSockets ==
    << [kind |-> "Frame", edge_kind |-> "ConfigurationInput", arity |-> "Many",
        internal_provider |-> "", external_provider |-> ""],
       [kind |-> "Frame", edge_kind |-> "ConfigurationOutput", arity |-> "Many",
        internal_provider |-> "", external_provider |-> ""] >>

\* Further sockets a parent's schema variant may carry (provider names; "" when
\* the socket backs no provider of that side).
ParentSocketShapes ==
    { [kind |-> "Provider", edge_kind |-> "ConfigurationInput", arity |-> "Many",
       internal_provider |-> "X", external_provider |-> ""],
      [kind |-> "Provider", edge_kind |-> "ConfigurationInput", arity |-> "Many",
       internal_provider |-> "", external_provider |-> ""],
      [kind |-> "Provider", edge_kind |-> "ConfigurationOutput", arity |-> "Many",
       internal_provider |-> "", external_provider |-> "X"],
      [kind |-> "Provider", edge_kind |-> "ConfigurationOutput", arity |-> "Many",
       internal_provider |-> "", external_provider |-> "Y"],
      [kind |-> "Provider", edge_kind |-> "ConfigurationOutput", arity |-> "Many",
       internal_provider |-> "", external_provider |-> ""],
      [kind |-> "Frame", edge_kind |-> "ConfigurationOutput", arity |-> "Many",
       internal_provider |-> "", external_provider |-> "X"] }

\* Further sockets the children's schema variant may carry.
ChildSocketShapes ==
    { [kind |-> "Provider", edge_kind |-> "ConfigurationInput", arity |-> "One",
       internal_provider |-> "X", external_provider |-> ""],
      [kind |-> "Provider", edge_kind |-> "ConfigurationInput", arity |-> "Many",
       internal_provider |-> "Y", external_provider |-> ""],
      [kind |-> "Frame", edge_kind |-> "ConfigurationInput", arity |-> "Many",
       internal_provider |-> "X", external_provider |-> ""] }

SeqsUpTo(S, n) == UNION {[1..k -> S] : k \in 0..n}

Nodes == {"P", "A", "B", "Z"}

\* Component::find_for_node: node Z has no component.
ComponentForNode(node) ==
    CASE node = "P" -> 1
      [] node = "A" -> 2
      [] node = "B" -> 3
      [] OTHER -> NONE

\* The schema variant of a component: the parent's, or the one A and B share.
VariantOf(component) == IF component = 1 THEN "parent" ELSE "child"

\* A socket as the handler sees it: its id (variant and position), kind, edge
\* kind, arity, and the providers it belongs to (a provider's id is its socket's position).
SocketAt(variant, shapes, n) ==
    [id |-> <<variant, n>>,
     kind |-> shapes[n].kind,
     edge_kind |-> shapes[n].edge_kind,
     arity |-> shapes[n].arity,
     internal_provider |->
         IF shapes[n].internal_provider = "" THEN NoProvider
         ELSE [id |-> n, name |-> shapes[n].internal_provider],
     external_provider |->
         IF shapes[n].external_provider = "" THEN NoProvider
         ELSE [id |-> n, name |-> shapes[n].external_provider]]

\* Socket::list_for_component.
ListForComponent(component) ==
    LET variant == VariantOf(component)
        shapes == FrameSockets \o (IF variant = "parent" THEN parentSockets ELSE childSockets)
    IN  [n \in DOMAIN shapes |-> SocketAt(variant, shapes, n)]

\* Socket::find_frame_socket_for_node: the Frame socket of that edge kind on
\* the node's component; none when the node has no component.
FindFrameSocketForNode(node, edge_kind) ==
    IF ComponentForNode(node) = NONE THEN {}
    ELSE LET sockets == ListForComponent(ComponentForNode(node))
             hits == {n \in DOMAIN sockets :
                          sockets[n].kind = "Frame" /\ sockets[n].edge_kind = edge_kind}
         IN  IF hits = {} THEN {} ELSE {sockets[MinOf(hits)]}

\* Component::get_type of the parent; children are plain components.
GetType(component) == IF component = 1 THEN parentType ELSE "Component"

\* The attribute values of the parent's providers: one at schema-variant level
\* and one at the parent component's level, unless the provider is the one
\* without a value.  Each has been computed already (WorldRows gives it a result).
ProviderContexts(n, shape) ==
    LET base == IF shape.internal_provider # ""
                THEN [DefaultBuilder EXCEPT !.internal_provider_id = n]
                ELSE [DefaultBuilder EXCEPT !.external_provider_id = n]
        variant == [base EXCEPT !.schema_id = 1, !.schema_variant_id = 1]
    IN  IF (shape.internal_provider = "" /\ shape.external_provider = "") \/ n = avMissing + 2
        THEN <<>>
        ELSE << variant, [variant EXCEPT !.component_id = 1] >>

RECURSIVE WorldRows(_, _)
WorldRows(shapes, n) ==
    IF n > Len(shapes) THEN <<>>
    ELSE [k \in DOMAIN ProviderContexts(n, shapes[n]) |->
              NewRow(k, ProviderContexts(n, shapes[n])[k], NONE)]
         \o WorldRows(shapes, n + 1)

\* ---- the writes of one transaction ----

NoWrites == [conns |-> <<>>, edges |-> <<>>, links |-> <<>>, jobs |-> <<>>, events |-> 0,
             status |-> "Ok", node |-> ""]

\* Number of rows a transaction wrote or queued.
Written(t) == Len(t.conns) + Len(t.edges) + Len(t.links) + Len(t.jobs)

Fail(t, status, node) == [t EXCEPT !.status = status, !.node = node]

\* Edge::new, with its arguments in the order the handler passes them.
EdgeNew(t, run, by, kind, from_node, from_socket, to_node, to_socket) ==
    [t EXCEPT !.edges = Append(@, [run |-> run, by |-> by, kind |-> kind,
                                   from_node |-> from_node, from_socket |-> from_socket,
                                   to_node |-> to_node, to_socket |-> to_socket])]

\* Connection::new: the connection and the edge between the same endpoints.
ConnectionNew(t, run, by, from_node, from_socket, to_node, to_socket, kind) ==
    LET c == [t EXCEPT !.conns = Append(@, [run |-> run, by |-> by,
                                            from_node |-> from_node, from_socket |-> from_socket,
                                            to_node |-> to_node, to_socket |-> to_socket,
                                            kind |-> kind])]
    IN  EdgeNew(c, run, by, kind, from_node, from_socket, to_node, to_socket)

\* Edge::connect_internal_providers_for_components / connect_external_...
ConnectProviders(t, run, fn, provider, first, second) ==
    [t EXCEPT !.links = Append(@, [run |-> run, fn |-> fn, provider |-> provider,
                                   first |-> first, second |-> second])]

\* Mutant of EnqueueJob: the job is queued twice.
EnqueueJob_twice(t, run, roots) ==
    [t EXCEPT !.jobs = Append(Append(@, [run |-> run, roots |-> roots]),
                              [run |-> run, roots |-> roots])]

\* ctx.enqueue_job(DependentValuesUpdate::new(ctx, roots)).
EnqueueJob(t, run, roots) ==
    [t EXCEPT !.jobs = Append(@, [run |-> run, roots |-> roots])]

\* Mutant of ReadContext: the value is read for no component.
ReadContext_without_component(component_id, internal_provider_id, external_provider_id) ==
    [prop_id |-> NONE,
     internal_provider_id |-> internal_provider_id,
     external_provider_id |-> external_provider_id,
     schema_id |-> ANY, schema_variant_id |-> ANY,
     component_id |-> NONE]

\* AttributeReadContext { component_id, <provider>, ..Default::default() } and the
\* four-field literal of the configuration branch: the other discriminators are
\* Some(NONE); the read context of this handler has no schema fields.
ReadContext(component_id, internal_provider_id, external_provider_id) ==
    [prop_id |-> NONE,
     internal_provider_id |-> internal_provider_id,
     external_provider_id |-> external_provider_id,
     schema_id |-> ANY, schema_variant_id |-> ANY,
     component_id |-> component_id]

\* Mutant of NamesMatch: every pair of providers is taken to match.
NamesMatch_always(parent_provider, child_provider) == TRUE

\* Line 210: parent_provider.name() == child_provider.name().
NamesMatch(parent_provider, child_provider) == parent_provider.name = child_provider.name

\* Mutant of SkipsParentSocket: the parent's Frame sockets are taken like the others.
SkipsParentSocket_never(parent_socket) == FALSE

\* Lines 101-103: a Frame socket of the parent is passed over.
SkipsParentSocket(parent_socket) == parent_socket.kind = "Frame"

\* Lines 203-205: a Frame socket of the child is passed over.
SkipsChildSocket(child_socket) == child_socket.kind = "Frame"

\* Mutant of OkOrNodeNotFound: a node without a component is let through.
OkOrNodeNotFound_unchecked(component) == "Ok"

\* Lines 86 and 91: .ok_or(DiagramError::NodeNotFound(node))?.
OkOrNodeNotFound(component) == IF component = NONE THEN "NodeNotFound" ELSE "Ok"

\* Mutant of FrameKind: a plain component is taken for a configuration frame.
FrameKind_accepts_component(component_type) ==
    IF component_type = "AggregationFrame" THEN "aggregation" ELSE "configuration"

\* Lines 94-98: the match on the parent's type.
FrameKind(component_type) ==
    CASE component_type = "AggregationFrame" -> "aggregation"
      [] component_type = "ConfigurationFrame" -> "configuration"
      [] OTHER -> "invalid"

\* ---- the request in flight ----

\* No connection: what `connection` (line 55) holds before Connection::new
\* returns, and what a response that is an error carries.
NoConnection == [run |-> 0, by |-> "", from_node |-> "", from_socket |-> <<>>,
                 to_node |-> "", to_socket |-> <<>>, kind |-> ""]

\* No socket: what from_socket and to_socket hold before they are found.
NoSocket == [id |-> <<>>, kind |-> "", edge_kind |-> "", arity |-> "",
             internal_provider |-> NoProvider, external_provider |-> NoProvider]

\* A request: where it is (pc, and the line of the call it awaits next), what
\* it was asked, the locals of the handler and of
\* connect_component_sockets_to_frame (i and j are the places of parent_socket
\* and child_socket in their lists), and the writes of its transaction.
Idle == [pc |-> "idle", line |-> 0, run |-> 0, entry |-> "", parent |-> "", child |-> "",
         from_socket |-> NoSocket, to_socket |-> NoSocket,
         parent_component |-> NONE, child_component |-> NONE,
         parent_sockets |-> <<>>, child_sockets |-> <<>>,
         i |-> 0, j |-> 0, aggregation_frame |-> FALSE,
         provider |-> NoProvider, attribute_value |-> NONE, event |-> FALSE,
         t |-> NoWrites, connection |-> NoConnection]

EmptyDb == [conns |-> <<>>, edges |-> <<>>, links |-> <<>>, jobs |-> <<>>, events |-> 0]

\* The request running now (its number in the order of arrival).
Run == req.run

\* How a request that has begun and not ended is logged.
Running == [status |-> "running", committed |-> FALSE, written |-> 0,
            response |-> NoConnection]

\* The request goes on as r; nothing else changes.
Goes(r) ==
    /\ req' = r
    /\ UNCHANGED <<db, other, log, worldVars, storeVars, ctxVars>>

\* An error leaves the function through `?`.
Failed(r, status, node) == [r EXCEPT !.pc = "failed", !.line = 0, !.t = Fail(@, status, node)]

\* The error ends the turn of the parent socket it came in.
FailedInTurn(r, status) == [Failed(r, status, "") EXCEPT !.i = @ + 1]

\* Lines 100-107, 154, 200 and 246: the loop goes on with the parent socket at
\* place i, past the Frame sockets, up to the call it awaits next; after the last
\* socket the function returns Ok(()), to the handler (line 65) or to the
\* other caller.
RECURSIVE NextParentSocket(_, _)
NextParentSocket(r, i) ==
    IF i > Len(r.parent_sockets)
    THEN [r EXCEPT !.i = i, !.j = 0,
                   !.pc = IF r.entry = "handler" THEN "event" ELSE "returned",
                   !.line = IF r.entry = "handler" THEN 68 ELSE 0]
    ELSE IF SkipsParentSocket(r.parent_sockets[i])
    THEN NextParentSocket(r, i + 1)
    ELSE [r EXCEPT !.i = i, !.j = 0,
                   !.line = IF ~r.aggregation_frame THEN 200
                            ELSE IF r.parent_sockets[i].edge_kind = "ConfigurationInput"
                            THEN 110
                            ELSE 156]

\* Lines 201-207: the inner loop goes on with the child socket at place j, past
\* the Frame sockets; after the last one the parent socket's turn is over.
RECURSIVE NextChildSocket(_, _)
NextChildSocket(r, j) ==
    IF j > Len(r.child_sockets)
    THEN NextParentSocket(r, r.i + 1)
    ELSE IF SkipsChildSocket(r.child_sockets[j])
    THEN NextChildSocket(r, j + 1)
    ELSE [r EXCEPT !.j = j, !.line = 207]

\* A frame connection request arrives and its context is built (entry
\* "handler", line 39), or another caller runs
\* connect_component_sockets_to_frame inside its own transaction ("direct").
Begin(entry, parent_node, child_node) ==
    /\ req.pc = "idle"
    /\ Len(log) < MaxRuns
    /\ req' = [Idle EXCEPT !.pc = IF entry = "handler" THEN "symbolic" ELSE "resolve",
                           !.line = IF entry = "handler" THEN 47 ELSE 85,
                           !.run = Len(log) + 1,
                           !.entry = entry, !.parent = parent_node, !.child = child_node]
    /\ log' = Append(log, Running)
    /\ UNCHANGED <<db, other, worldVars, storeVars, ctxVars>>

\* Lines 42-47 and 48-53: Socket::find_frame_socket_for_node, of the child and
\* then of the parent.
FrameSocketForNode ==
    /\ req.pc = "symbolic" /\ req.line \in {47, 53}
    /\ LET node == IF req.line = 47 THEN req.child ELSE req.parent
           edge_kind == IF req.line = 47 THEN "ConfigurationOutput" ELSE "ConfigurationInput"
           found == FindFrameSocketForNode(node, edge_kind)
       IN  IF found = {}
           THEN Goes(Failed(req, "FrameSocketNotFound", node))
           ELSE \E socket \in found :
                    Goes(IF req.line = 47
                         THEN [req EXCEPT !.line = 53, !.from_socket = socket]
                         ELSE [req EXCEPT !.line = 63, !.to_socket = socket])

\* Lines 55-65: Connection::new of the Symbolic connection; the handler then
\* calls connect_component_sockets_to_frame.
SymbolicConnection ==
    /\ req.pc = "symbolic" /\ req.line = 63
    /\ LET t == ConnectionNew(req.t, Run, "handler", req.child, req.from_socket.id,
                              req.parent, req.to_socket.id, "Symbolic")
       IN  Goes([req EXCEPT !.pc = "resolve", !.line = 85,
                            !.t = t,
                            !.connection = t.conns[Len(t.conns)]])

\* Lines 84-86 and 89-91: Component::find_for_node, of the parent and then of
\* the child.
FindForNode ==
    /\ req.pc = "resolve" /\ req.line \in {85, 90}
    /\ LET node == IF req.line = 85 THEN req.parent ELSE req.child
           component == ComponentForNode(node)
       IN  IF OkOrNodeNotFound(component) # "Ok"
           THEN Goes(Failed(req, "NodeNotFound", node))
           ELSE Goes(IF req.line = 85
                     THEN [req EXCEPT !.line = 87, !.parent_component = component]
                     ELSE [req EXCEPT !.line = 92, !.child_component = component])

\* Lines 87 and 92: Socket::list_for_component, of the parent and then of the
\* child.
SocketsForComponent ==
    /\ req.pc = "resolve" /\ req.line \in {87, 92}
    /\ Goes(IF req.line = 87
            THEN [req EXCEPT !.line = 90,
                             !.parent_sockets = ListForComponent(req.parent_component)]
            ELSE [req EXCEPT !.line = 94,
                             !.child_sockets = ListForComponent(req.child_component)])

\* Lines 94-100: parent_component.get_type; the loop over the parent's sockets
\* begins.
GetTypeOfParent ==
    /\ req.pc = "resolve" /\ req.line = 94
    /\ LET kind == FrameKind(GetType(req.parent_component))
       IN  IF kind = "invalid"
           THEN Goes(Failed(req, "InvalidComponentTypeForFrame", ""))
           ELSE Goes(NextParentSocket(
                         [req EXCEPT !.pc = "loop",
                                     !.aggregation_frame = (kind = "aggregation")],
                         1))

\* Lines 108-113: InternalProvider::find_explicit_for_socket.
FindExplicitForSocket ==
    /\ req.pc = "loop" /\ req.line = 110
    /\ LET provider == req.parent_sockets[req.i].internal_provider
       IN  IF provider = NoProvider
           THEN Goes(FailedInTurn(req, "InternalProviderNotFoundForSocket"))
           ELSE Goes([req EXCEPT !.line = 122, !.provider = provider])

\* Lines 116-122: Edge::connect_internal_providers_for_components.
ConnectInternalProviders ==
    /\ req.pc = "loop" /\ req.line = 122
    /\ Goes([req EXCEPT !.line = 136,
                        !.t = ConnectProviders(@, Run,
                                               "connect_internal_providers_for_components",
                                               req.provider.id, req.child_component,
                                               req.parent_component)])

\* Mutant of EdgeToParent: the edge runs from the parent to the child.
EdgeToParent_reversed ==
    /\ req.pc = "loop" /\ req.line = 136
    /\ Goes([req EXCEPT !.line = 146,
                        !.t = EdgeNew(@, Run, "sockets", "Configuration",
                                      req.parent, req.parent_sockets[req.i].id,
                                      req.child, req.parent_sockets[req.i].id)])

\* Lines 124-136: Edge::new from the child to the parent.
EdgeToParent ==
    /\ req.pc = "loop" /\ req.line = 136
    /\ Goes([req EXCEPT !.line = 146,
                        !.t = EdgeNew(@, Run, "sockets", "Configuration",
                                      req.child, req.parent_sockets[req.i].id,
                                      req.parent, req.parent_sockets[req.i].id)])

\* Lines 155-159: ExternalProvider::find_for_socket.
FindForSocket ==
    /\ req.pc = "loop" /\ req.line = 156
    /\ LET provider == req.parent_sockets[req.i].external_provider
       IN  IF provider = NoProvider
           THEN Goes(FailedInTurn(req, "ExternalProviderNotFoundForSocket"))
           ELSE Goes([req EXCEPT !.line = 167, !.provider = provider])

\* Lines 161-167: Edge::connect_external_providers_for_components.
ConnectExternalProviders ==
    /\ req.pc = "loop" /\ req.line = 167
    /\ Goes([req EXCEPT !.line = 181,
                        !.t = ConnectProviders(@, Run,
                                               "connect_external_providers_for_components",
                                               req.provider.id, req.parent_component,
                                               req.child_component)])

\* Lines 169-181: Edge::new from the parent to the child.
EdgeToChild ==
    /\ req.pc = "loop" /\ req.line = 181
    /\ Goes([req EXCEPT !.line = 191,
                        !.t = EdgeNew(@, Run, "sockets", "Configuration",
                                      req.parent, req.parent_sockets[req.i].id,
                                      req.child, req.parent_sockets[req.i].id)])

\* Line 200: parent_socket.external_provider; with a provider the loop over
\* the child's sockets begins, without one the turn is over.
ExternalProviderOfSocket ==
    /\ req.pc = "loop" /\ req.line = 200
    /\ LET parent_provider == req.parent_sockets[req.i].external_provider
       IN  IF parent_provider = NoProvider
           THEN Goes(NextParentSocket(req, req.i + 1))
           ELSE Goes(NextChildSocket([req EXCEPT !.provider = parent_provider], 1))

\* Lines 207-210: child_socket.internal_provider, and the match of the names.
InternalProviderOfSocket ==
    /\ req.pc = "loop" /\ req.line = 207
    /\ LET child_provider == req.child_sockets[req.j].internal_provider
       IN  IF child_provider # NoProvider /\ NamesMatch(req.provider, child_provider)
           THEN Goes([req EXCEPT !.line = 219])
           ELSE Goes(NextChildSocket(req, req.j + 1))

\* Mutant of ConfigurationConnection: Edge::new in place of Connection::new.
ConfigurationConnection_edge_only ==
    /\ req.pc = "loop" /\ req.line = 219
    /\ Goes([req EXCEPT !.line = 230,
                        !.t = EdgeNew(@, Run, "sockets", "Configuration",
                                      req.parent, req.parent_sockets[req.i].id,
                                      req.child, req.child_sockets[req.j].id)])

\* Lines 211-219: Connection::new between the matching sockets.
ConfigurationConnection ==
    /\ req.pc = "loop" /\ req.line = 219
    /\ Goes([req EXCEPT !.line = 230,
                        !.t = ConnectionNew(@, Run, "sockets",
                                            req.parent, req.parent_sockets[req.i].id,
                                            req.child, req.child_sockets[req.j].id,
                                            "Configuration")])

\* Mutant of ReadContextAt: the output of an aggregation frame is read on the
\* parent's side.
ReadContextAt_reads_parent(r) ==
    CASE r.line = 146 -> ReadContext(r.parent_component, r.provider.id, NONE)
      [] r.line = 191 -> ReadContext(r.parent_component, NONE, r.provider.id)
      [] OTHER -> ReadContext(r.parent_component, NONE, r.provider.id)

\* Lines 138-142, 183-187 and 221-226: the read context of the value to enqueue.
ReadContextAt(r) ==
    CASE r.line = 146 -> ReadContext(r.parent_component, r.provider.id, NONE)
      [] r.line = 191 -> ReadContext(r.child_component, NONE, r.provider.id)
      [] OTHER -> ReadContext(r.parent_component, NONE, r.provider.id)

\* Lines 144-149, 189-194 and 228-233:
\* AttributeValue::find_for_context(..).await?.ok_or(AttributeValueNotFoundForContext)?.
FindValueForContext ==
    /\ req.pc = "loop" /\ req.line \in {146, 191, 230}
    /\ LET attribute_value == find_for_context(values, ReadContextAt(req))
       IN  IF attribute_value = NONE
           THEN Goes(FailedInTurn(req, "AttributeValueNotFoundForContext"))
           ELSE Goes([req EXCEPT !.attribute_value = attribute_value,
                                 !.line = CASE req.line = 146 -> 152
                                            [] req.line = 191 -> 197
                                            [] OTHER -> 239])

\* Mutant of EnqueueDependentValues: no job for the connection of a
\* configuration frame.
EnqueueDependentValues_not_for_connections ==
    /\ req.pc = "loop" /\ req.line \in {152, 197, 239}
    /\ IF req.line = 239
       THEN Goes(NextChildSocket(req, req.j + 1))
       ELSE Goes(NextParentSocket(
                     [req EXCEPT !.t = EnqueueJob(@, Run, <<req.attribute_value>>)],
                     req.i + 1))

\* Lines 151-152, 196-197 and 235-239: ctx.enqueue_job of the value found; the
\* loop goes on with the next parent socket, or (239) the next child socket.
EnqueueDependentValues ==
    /\ req.pc = "loop" /\ req.line \in {152, 197, 239}
    /\ LET r == [req EXCEPT !.t = EnqueueJob(@, Run, <<req.attribute_value>>)]
       IN  IF req.line = 239
           THEN Goes(NextChildSocket(r, req.j + 1))
           ELSE Goes(NextParentSocket(r, req.i + 1))

\* Lines 67-68: WsEvent::change_set_written makes the event.
ChangeSetWritten ==
    /\ req.pc = "event" /\ req.line = 68
    /\ Goes([req EXCEPT !.line = 70, !.event = TRUE])

\* Mutant of PublishOnCommit: the event is published as soon as it is made.
PublishOnCommit_publishes_now ==
    /\ req.pc = "event" /\ req.line = 70
    /\ req' = [req EXCEPT !.pc = "commit", !.line = 72]
    /\ db' = [db EXCEPT !.events = @ + 1]
    /\ UNCHANGED <<other, log, worldVars, storeVars, ctxVars>>

\* Lines 69-70: publish_on_commit, the event is to be published on commit.
PublishOnCommit ==
    /\ req.pc = "event" /\ req.line = 70
    /\ Goes([req EXCEPT !.pc = "commit", !.line = 72, !.t.events = @ + 1])

\* Mutant of CommitWrites: the writes of a failed request are committed too.
CommitWrites_even_if_failed(committed, t, ok) ==
    [conns |-> committed.conns \o t.conns,
     edges |-> committed.edges \o t.edges,
     links |-> committed.links \o t.links,
     jobs |-> committed.jobs \o t.jobs,
     events |-> committed.events + t.events]

\* What the end of a request leaves in the committed state: ctx.commit() (line
\* 72) is reached on success only; an early return through `?` drops the
\* context, and with it every write of the transaction.
CommitWrites(committed, t, ok) ==
    IF ok
    THEN [conns |-> committed.conns \o t.conns,
          edges |-> committed.edges \o t.edges,
          links |-> committed.links \o t.links,
          jobs |-> committed.jobs \o t.jobs,
          events |-> committed.events + t.events]
    ELSE committed

\* Mutant of Commit: the values queued as roots are recomputed in the commit.
Commit_recomputes ==
    /\ req.pc = "commit"
    /\ db' = CommitWrites(db, req.t, TRUE)
    /\ log' = [log EXCEPT ![Run] =
                   [status |-> "Ok", committed |-> TRUE, written |-> Written(req.t),
                    response |-> req.connection]]
    /\ req' = Idle
    /\ values' = [v \in DOMAIN values |->
                     IF \E k \in DOMAIN req.t.jobs : req.t.jobs[k].roots[1] = v
                     THEN [values[v] EXCEPT !.func_binding_return_value_id = NONE]
                     ELSE values[v]]
    /\ UNCHANGED <<handle, storeResult, created, insertedAt, clock, prototypes, links,
                   other, worldVars, ctxVars>>

\* Line 72-74: ctx.commit(), then the response with the Symbolic connection.
Commit ==
    /\ req.pc = "commit"
    /\ db' = CommitWrites(db, req.t, TRUE)
    /\ log' = [log EXCEPT ![Run] =
                   [status |-> "Ok", committed |-> TRUE, written |-> Written(req.t),
                    response |-> req.connection]]
    /\ req' = Idle
    /\ UNCHANGED <<other, worldVars, storeVars, ctxVars>>

\* An error left the handler through `?`: no commit.
Rollback ==
    /\ req.pc = "failed"
    /\ db' = CommitWrites(db, req.t, FALSE)
    /\ log' = [log EXCEPT ![Run] =
                   [status |-> req.t.status, committed |-> FALSE, written |-> Written(req.t),
                    response |-> NoConnection]]
    /\ req' = Idle
    /\ UNCHANGED <<other, worldVars, storeVars, ctxVars>>

\* connect_component_sockets_to_frame returned Ok(()) to another caller, whose
\* transaction is not part of this model.
Return ==
    /\ req.pc = "returned"
    /\ log' = [log EXCEPT ![Run] =
                   [status |-> "Ok", committed |-> FALSE, written |-> Written(req.t),
                    response |-> NoConnection]]
    /\ req' = Idle
    /\ UNCHANGED <<db, other, worldVars, storeVars, ctxVars>>

\* The server turns from the request it was running to the other one in
\* flight (or to the free slot): each has its own context and transaction.
Switch ==
    /\ req.pc # "idle" \/ other.pc # "idle"
    /\ req' = other
    /\ other' = req
    /\ UNCHANGED <<db, log, worldVars, storeVars, ctxVars>>

\* What the reads of a request's transaction range over: the committed rows
\* and the rows the transaction itself wrote.
Visible(r) ==
    [conns |-> db.conns \o r.t.conns,
     edges |-> db.edges \o r.t.edges,
     links |-> db.links \o r.t.links,
     jobs |-> db.jobs \o r.t.jobs]


(***************************************************************************)
(* 7. The builtin migrations of aws/vpc.rs: migrate, ingress, egress,      *)
(*    security_group, one step for each call they await                    *)
(***************************************************************************)

\* Bounds: the calls of migrate, the changes of a provider's value, and the
\* jobs enqueued.
MaxMigrations == 2
MaxChanges == 1
MaxJobs == 2

\* The schemas of migrate, in the order it installs them; a schema's id and
\* its variant's id are its position.
SchemaNames == <<"Ingress", "Egress", "Security Group">>

\* Their providers: the explicit internal providers of the input sockets
\* "Region" and "Security Group ID", the implicit internal providers of
\* /root/si/name and of the security group id, and the external provider of
\* the output socket "Security Group ID".
region_explicit_internal_provider == 1
group_id_internal_provider == 2
si_name_internal_provider == 3
security_group_id_internal_provider == 4
security_group_id_external_provider == 1

\* One awaited call of a migration function: the line of its .await, the
\* function called, the prop or provider it is given (NONE: a local, or
\* nothing modelled), the error ok_or puts in place of a None, and the
\* expression of the synchronous code after the call that returns an error
\* through `?`, with its line.
Call(line, call, arg, err) ==
    [line |-> line, call |-> call, arg |-> arg, err |-> err,
     post_line |-> 0, post |-> ""]

CallThen(line, call, arg, err, post_line, post) ==
    [line |-> line, call |-> call, arg |-> arg, err |-> err,
     post_line |-> post_line, post |-> post]

\* The error the `?` of such an expression returns: diagram_kind()
\* .ok_or_else(NoDiagramKindForSchemaKind)?, serde_json::to_value(..)?,
\* attribute_prototype_id().ok_or_else(MissingAttributePrototypeForExternalProvider)?.
PostErr(post) ==
    CASE post = "diagram_kind" -> "NoDiagramKindForSchemaKind"
      [] post = "attribute_prototype_id" -> "MissingAttributePrototypeForExternalProvider"
      [] OTHER -> "SerdeJson"

ingress ==
    << Call(39, "create_schema", NONE, ""),
       Call(45, "SchemaVariant::new", NONE, ""),
       Call(46, "set_color", NONE, ""),
       CallThen(49, "set_default_schema_variant_id", NONE, "", 58, "diagram_kind"),
       Call(59, "SchemaUiMenu::new", NONE, ""),
       Call(60, "set_schema", NONE, ""),
       Call(71, "create_prop", group_id_prop, ""),
       Call(81, "create_prop", protocol_prop, ""),
       Call(98, "create_validation", NONE, ""),
       Call(108, "create_prop", to_port_prop, ""),
       Call(121, "create_validation", NONE, ""),
       Call(131, "create_prop", from_port_prop, ""),
       Call(144, "create_validation", NONE, ""),
       Call(154, "create_prop", cidr_prop, ""),
       Call(163, "create_validation", NONE, ""),
       Call(173, "create_prop", region_prop, ""),
       Call(183, "create_prop", aws_resource_type_prop, ""),
       Call(193, "create_prop", tags_map_prop, ""),
       Call(203, "create_prop", tags_map_item_prop, ""),
       Call(214, "Socket::new", NONE, ""),
       Call(215, "add_socket", NONE, ""),
       Call(222, "setup_identity_func", NONE, ""),
       Call(237, "new_explicit_with_socket", group_id_internal_provider, ""),
       Call(238, "set_color", NONE, ""),
       Call(252, "new_explicit_with_socket", region_explicit_internal_provider, ""),
       Call(253, "set_color", NONE, ""),
       CallThen(259, "find_by_attr", NONE, "FuncNotFound", 264, "serde_json::to_value"),
       Call(275, "CodeGenerationPrototype::new", NONE, ""),
       Call(278, "finalize", NONE, ""),
       Call(288, "set_default_value_for_prop", NONE, ""),
       Call(296, "set_default_value_for_prop", NONE, ""),
       Call(311, "find_for_context", tags_map_prop, "AttributeValueNotFoundForContext"),
       Call(326, "insert_for_context", tags_map_item_prop, ""),
       Call(331, "find_child_prop_by_name", NONE, ""),
       Call(333, "get_for_prop", si_name_prop, "ImplicitInternalProviderNotFoundForProp"),
       Call(339, "get_by_id", NONE, "AttributeValueNotFound"),
       Call(345, "attribute_prototype", NONE, "MissingAttributePrototypeForAttributeValue"),
       Call(349, "set_func_id", NONE, ""),
       Call(351, "find_by_name_for_func", NONE, "BuiltinMissingFuncArgument"),
       Call(364, "new_for_intra_component", NONE, ""),
       Call(380, "find_for_context", region_prop, "AttributeValueNotFoundForContext"),
       Call(386, "attribute_prototype", NONE, "MissingAttributePrototypeForAttributeValue"),
       Call(390, "set_func_id", NONE, ""),
       Call(397, "new_for_intra_component", region_explicit_internal_provider, ""),
       Call(406, "find_for_context", group_id_prop, "AttributeValueNotFoundForContext"),
       Call(412, "attribute_prototype", NONE, "MissingAttributePrototypeForAttributeValue"),
       Call(416, "set_func_id", NONE, ""),
       Call(423, "new_for_intra_component", group_id_internal_provider, "") >>

egress ==
    << Call(432, "create_schema", NONE, ""),
       Call(438, "SchemaVariant::new", NONE, ""),
       Call(439, "set_color", NONE, ""),
       CallThen(442, "set_default_schema_variant_id", NONE, "", 451, "diagram_kind"),
       Call(452, "SchemaUiMenu::new", NONE, ""),
       Call(453, "set_schema", NONE, ""),
       Call(464, "create_prop", group_id_prop, ""),
       Call(474, "create_prop", protocol_prop, ""),
       Call(491, "create_validation", NONE, ""),
       Call(501, "create_prop", from_port_prop, ""),
       Call(514, "create_validation", NONE, ""),
       Call(524, "create_prop", to_port_prop, ""),
       Call(537, "create_validation", NONE, ""),
       Call(547, "create_prop", cidr_prop, ""),
       Call(556, "create_validation", NONE, ""),
       Call(566, "create_prop", region_prop, ""),
       Call(576, "create_prop", aws_resource_type_prop, ""),
       Call(586, "create_prop", tags_map_prop, ""),
       Call(596, "create_prop", tags_map_item_prop, ""),
       Call(607, "Socket::new", NONE, ""),
       Call(608, "add_socket", NONE, ""),
       Call(615, "setup_identity_func", NONE, ""),
       Call(630, "new_explicit_with_socket", group_id_internal_provider, ""),
       Call(631, "set_color", NONE, ""),
       Call(645, "new_explicit_with_socket", region_explicit_internal_provider, ""),
       Call(646, "set_color", NONE, ""),
       CallThen(652, "find_by_attr", NONE, "FuncNotFound", 657, "serde_json::to_value"),
       Call(668, "CodeGenerationPrototype::new", NONE, ""),
       Call(671, "finalize", NONE, ""),
       Call(681, "set_default_value_for_prop", NONE, ""),
       Call(689, "set_default_value_for_prop", NONE, ""),
       Call(704, "find_for_context", tags_map_prop, "AttributeValueNotFoundForContext"),
       Call(719, "insert_for_context", tags_map_item_prop, ""),
       Call(724, "find_child_prop_by_name", NONE, ""),
       Call(726, "get_for_prop", si_name_prop, "ImplicitInternalProviderNotFoundForProp"),
       Call(732, "get_by_id", NONE, "AttributeValueNotFound"),
       Call(738, "attribute_prototype", NONE, "MissingAttributePrototypeForAttributeValue"),
       Call(742, "set_func_id", NONE, ""),
       Call(744, "find_by_name_for_func", NONE, "BuiltinMissingFuncArgument"),
       Call(757, "new_for_intra_component", NONE, ""),
       Call(773, "find_for_context", region_prop, "AttributeValueNotFoundForContext"),
       Call(779, "attribute_prototype", NONE, "MissingAttributePrototypeForAttributeValue"),
       Call(783, "set_func_id", NONE, ""),
       Call(790, "new_for_intra_component", region_explicit_internal_provider, ""),
       Call(799, "find_for_context", group_id_prop, "AttributeValueNotFoundForContext"),
       Call(805, "attribute_prototype", NONE, "MissingAttributePrototypeForAttributeValue"),
       Call(809, "set_func_id", NONE, ""),
       Call(816, "new_for_intra_component", group_id_internal_provider, "") >>

security_group ==
    << Call(825, "create_schema", NONE, ""),
       Call(830, "SchemaVariant::new", NONE, ""),
       Call(831, "set_color", NONE, ""),
       CallThen(835, "set_default_schema_variant_id", NONE, "", 845, "diagram_kind"),
       Call(847, "SchemaUiMenu::new", NONE, ""),
       Call(849, "set_schema", NONE, ""),
       Call(860, "create_prop", security_group_id_prop, ""),
       Call(870, "create_prop", description_prop, ""),
       Call(880, "create_prop", group_name_prop, ""),
       Call(890, "create_prop", vpc_id_prop, ""),
       Call(900, "create_prop", region_prop, ""),
       Call(910, "create_prop", tags_map_prop, ""),
       Call(920, "create_prop", tags_map_item_prop, ""),
       Call(930, "create_prop", aws_resource_type_prop, ""),
       Call(938, "setup_identity_func", NONE, ""),
       Call(948, "Socket::new", NONE, ""),
       Call(949, "add_socket", NONE, ""),
       Call(963, "new_explicit_with_socket", region_explicit_internal_provider, ""),
       Call(964, "set_color", NONE, ""),
       Call(979, "new_with_socket", security_group_id_external_provider, ""),
       Call(980, "set_color", NONE, ""),
       CallThen(986, "find_by_attr", NONE, "FuncNotFound", 991, "serde_json::to_value"),
       Call(1002, "CodeGenerationPrototype::new", NONE, ""),
       Call(1005, "finalize", NONE, ""),
       Call(1015, "set_default_value_for_prop", NONE, ""),
       Call(1030, "find_for_context", tags_map_prop, "AttributeValueNotFoundForContext"),
       Call(1045, "insert_for_context", tags_map_item_prop, ""),
       Call(1050, "find_child_prop_by_name", NONE, ""),
       Call(1052, "get_for_prop", si_name_prop, "ImplicitInternalProviderNotFoundForProp"),
       Call(1058, "get_by_id", NONE, "AttributeValueNotFound"),
       Call(1064, "attribute_prototype", NONE, "MissingAttributePrototypeForAttributeValue"),
       Call(1068, "set_func_id", NONE, ""),
       Call(1070, "find_by_name_for_func", NONE, "BuiltinMissingFuncArgument"),
       CallThen(1083, "new_for_intra_component", NONE, "", 1100, "attribute_prototype_id"),
       Call(1104, "get_for_prop", security_group_id_prop, "ImplicitInternalProviderNotFoundForProp"),
       Call(1114, "new_for_intra_component", NONE, ""),
       Call(1123, "find_for_context", region_prop, "AttributeValueNotFoundForContext"),
       Call(1129, "attribute_prototype", NONE, "MissingAttributePrototypeForAttributeValue"),
       Call(1133, "set_func_id", NONE, ""),
       Call(1140, "new_for_intra_component", region_explicit_internal_provider, ""),
       Call(1150, "find_for_context", group_name_prop, "Missing"),
       Call(1154, "attribute_prototype", NONE, "MissingAttributePrototype"),
       Call(1158, "set_func_id", NONE, ""),
       Call(1160, "find_child_prop_by_name", NONE, ""),
       Call(1162, "get_for_prop", si_name_prop, "ImplicitInternalProviderNotFoundForProp"),
       Call(1172, "new_for_intra_component", NONE, "") >>

\* The calls whose effects are on tables that are not modelled (schema
\* variants, props, sockets, validations, functions, defaults).
UntrackedCalls ==
    {"SchemaVariant::new", "set_color", "set_default_schema_variant_id",
     "SchemaUiMenu::new", "set_schema", "create_prop", "create_validation",
     "Socket::new", "add_socket", "find_by_attr", "CodeGenerationPrototype::new",
     "set_default_value_for_prop", "find_child_prop_by_name"}

\* The function migrate runs for the schema at position fn.
Program(fn) ==
    CASE fn = 1 -> ingress
      [] fn = 2 -> egress
      [] OTHER -> security_group

\* The locals of the function in progress: the attribute value, the prototype
\* and the implicit internal provider it holds, the prototype of the external
\* provider, and whether setup_identity_func gave the identity function and
\* its argument.
NoLocals ==
    [value |-> NONE, prototype |-> NONE, provider |-> NONE,
     external_prototype |-> NONE, identity |-> FALSE]

\* No call has ended the migration with an error (of the call or expression
\* that did: its function, its line and its name).
NotEnded == [fn |-> 0, line |-> 0, call |-> ""]

\* A schema that is not there.
NoSchema == [exists |-> FALSE, finalized |-> FALSE, bound |-> FALSE]

\* The unit of work migrate runs in, which is its caller's: whether it is
\* open, and what it wrote: the ids of its values, the number of prototypes
\* there were when it began, and the schemas it created.
NoTransaction == [open |-> FALSE, values |-> {}, prototypes |-> 0, schemas |-> {}]

NoSchemas ==
    [rows |-> [n \in DOMAIN SchemaNames |-> NoSchema],
     scaffolding |-> "whole", fn |-> 0, pc |-> 0, locals |-> NoLocals, runs |-> 0,
     status |-> "none", transaction |-> NoTransaction, ended |-> NotEnded, args |-> {},
     queue |-> <<>>, changes |-> 0, ran |-> 0]

\* The tables a migration writes, and the status of its last write.
TheStore == [values |-> values, prototypes |-> prototypes, links |-> links,
             args |-> schemas.args, status |-> "Ok"]

\* BuiltinSchemaHelpers::create_schema: none when a schema of that name exists.
create_schema(rows, n) == IF rows[n].exists THEN NONE ELSE n

\* Mutant of AfterCreateSchema: the migration goes on when the schema exists.
AfterCreateSchema_goes_on(schema) == "variant"

\* match create_schema(..) { Some(schema) => schema, None => return Ok(()) }.
AfterCreateSchema(schema) == IF schema = NONE THEN "return" ELSE "variant"

\* AttributePrototype::new on the tables: the prototype and the value it
\* produces at its context; a refused insert is the error of the call, and
\* nothing is written after an error (`?`).
prototype_new(s, func_id, context) ==
    LET r == attribute_value_create_v1(s.values, NewRow(NONE, context, NONE))
    IN  IF s.status # "Ok" THEN s
        ELSE IF r.status # "Ok" THEN [s EXCEPT !.status = r.status]
        ELSE [s EXCEPT !.values = r.rows,
                       !.prototypes = Append(@, [func_id |-> func_id, context |-> context]),
                       !.links.prototype = set_belongs_to(@, r.id, Len(s.prototypes) + 1)]

\* The context of an internal provider of the schema variant n.
ProviderContext(n, provider) ==
    [DefaultBuilder EXCEPT !.internal_provider_id = provider,
                           !.schema_id = n, !.schema_variant_id = n]

\* The context of an external provider of the schema variant n.
ExternalProviderContext(n, provider) ==
    [DefaultBuilder EXCEPT !.external_provider_id = provider,
                           !.schema_id = n, !.schema_variant_id = n]

\* InternalProvider::new_explicit_with_socket: the provider comes with its
\* prototype (the identity function) and its value.
new_explicit_with_socket(s, n, provider) ==
    prototype_new(s, identity_func_id, ProviderContext(n, provider))

\* ExternalProvider::new_with_socket: the provider comes with its prototype
\* (the identity function) and its value.
new_with_socket(s, n, provider) ==
    prototype_new(s, identity_func_id, ExternalProviderContext(n, provider))

\* The props of the root that SchemaVariant::new makes and vpc.rs names.
RootProps == <<si_prop_id, si_name_prop, domain_prop_id>>

\* The props of the variant n: those of its root, then those the function
\* creates (its create_prop calls, in their order).
PropsOf(n) ==
    LET calls == SelectSeq(Program(n), LAMBDA c : c.call = "create_prop")
    IN  RootProps \o [i \in DOMAIN calls |-> calls[i].arg]

\* The prop of the elements of a map or an array: it has a value for each
\* element that is inserted, and none before.
IsElement(prop_id) ==
    /\ ParentOfProp(prop_id) # NONE
    /\ PropKindOf(ParentOfProp(prop_id)) \in {"Array", "Map"}

\* The implicit internal provider of a prop (of those the migrations ask for).
ImplicitProviderOf(prop_id) ==
    CASE prop_id = si_name_prop -> si_name_internal_provider
      [] prop_id = security_group_id_prop -> security_group_id_internal_provider
      [] OTHER -> NONE

\* Where the scaffolding puts the value of a prop: at the schema or at the variant.
ScaffoldLevels == {"schema", "variant"}

ScaffoldContext(n, prop_id, level) ==
    [DefaultBuilder EXCEPT !.prop_id = prop_id, !.schema_id = n,
                           !.schema_variant_id = IF level = "variant" THEN n ELSE NONE]

\* A prop's default prototype and value, the value of a Map prop being an
\* empty map, and the prop's implicit internal provider with its own.
scaffold_prop(s, n, prop_id, level) ==
    LET t == prototype_new(s, NONE, ScaffoldContext(n, prop_id, level))
        u == IF t.status = "Ok" /\ PropKindOf(prop_id) = "Map"
             THEN [t EXCEPT !.values[Len(t.values)].index_map = EmptyIndexMap]
             ELSE t
    IN  IF ImplicitProviderOf(prop_id) = NONE THEN u
        ELSE prototype_new(u, identity_func_id,
                           ProviderContext(n, ImplicitProviderOf(prop_id)))

RECURSIVE scaffold_props(_, _, _, _)
scaffold_props(s, n, props, level) ==
    IF props = <<>> THEN s
    ELSE scaffold_props(scaffold_prop(s, n, Head(props), level), n, Tail(props), level)

\* SchemaVariant::finalize: every prop of the variant gets its default
\* prototype and with it its value, but the prop of the elements of a map; a
\* scaffolding with a bug leaves the props of `without` with none.
finalize(s, n, level, without) ==
    scaffold_props(s, n,
                   SelectSeq(PropsOf(n),
                             LAMBDA prop_id : ~IsElement(prop_id) /\ prop_id \notin without),
                   level)

\* Bound: the props a scaffolding with a bug leaves without a value.
MaxLeftWithout == 1

\* The props whose value or provider the function of schema n asks for
\* (find_for_context, get_for_prop).
LookedUp(n) ==
    {Program(n)[i].arg :
         i \in {k \in DOMAIN Program(n) :
                    Program(n)[k].call \in {"find_for_context", "get_for_prop"}}}

\* The props a finalize leaves without a value: none when the scaffolding is
\* whole; when it has a bug, up to MaxLeftWithout of those the function asks
\* for (what the others have the function does not read).
LeftWithout(n, scaffolding) ==
    IF scaffolding = "whole" THEN {{}}
    ELSE {without \in SUBSET LookedUp(n) : Cardinality(without) <= MaxLeftWithout}

\* Mutant of SchemaPropReadContext: the prop is left out of the read context.
SchemaPropReadContext_base_only(schema_id, schema_variant_id, prop_id) ==
    [prop_id |-> NONE, internal_provider_id |-> NONE, external_provider_id |-> NONE,
     schema_id |-> schema_id, schema_variant_id |-> schema_variant_id,
     component_id |-> NONE]

\* AttributeReadContext { prop_id: Some(prop), ..base_attribute_read_context },
\* base being { schema_id, schema_variant_id, ..Default::default() }.
SchemaPropReadContext(schema_id, schema_variant_id, prop_id) ==
    [prop_id |-> prop_id, internal_provider_id |-> NONE, external_provider_id |-> NONE,
     schema_id |-> schema_id, schema_variant_id |-> schema_variant_id,
     component_id |-> NONE]

\* AttributeContextBuilder::from(base).set_prop_id(tags_map_item_prop).to_context().
TagsItemContext(n) ==
    to_context([DefaultBuilder EXCEPT !.prop_id = tags_map_item_prop, !.schema_id = n,
                                      !.schema_variant_id = n])

\* InternalProvider::get_for_prop: the implicit internal provider of the
\* prop in the variant n, or none.
get_for_prop(rows, n, prop_id) ==
    IF /\ ImplicitProviderOf(prop_id) # NONE
       /\ \E i \in DOMAIN rows :
              rows[i].context = ProviderContext(n, ImplicitProviderOf(prop_id))
    THEN ImplicitProviderOf(prop_id)
    ELSE NONE

\* AttributeValue::get_by_id: the row of that id, or none.
get_by_id(rows, id) == IF id \in DOMAIN rows THEN id ELSE NONE

\* Mutant of new_for_intra_component: the argument is not stored.
new_for_intra_component_not_stored(args, prototype_id, provider) == args

\* AttributePrototypeArgument::new_for_intra_component(prototype, identity
\* argument, internal provider).
new_for_intra_component(args, prototype_id, provider) == args \cup {<<prototype_id, provider>>}

\* ---- migrate, call by call ----

\* The variables no migration touches.
migrationIdle == <<handle, storeResult, created, insertedAt, clock, builder, ctxResult,
                   parentType, parentSockets, childSockets, avMissing, db, req, other, log>>

\* The call the function in progress makes next.
Instr == Program(schemas.fn)[schemas.pc]

At(call) == schemas.fn # 0 /\ Instr.call = call

\* A function of migrate returns: Ok moves on to the next one, and after the
\* last to the end of migrate; an error ends migrate (`?`).
EndFunction(m, status) ==
    IF status = "Ok" /\ m.fn < Len(SchemaNames)
    THEN [m EXCEPT !.fn = @ + 1, !.pc = 1, !.locals = NoLocals]
    ELSE [m EXCEPT !.fn = 0, !.pc = 0, !.locals = NoLocals, !.runs = @ + 1,
                   !.status = status]

\* The call returned what the function needs: the next call, or Ok(()) after
\* the last one.
Continue(m) ==
    IF m.pc < Len(Program(m.fn))
    THEN [m EXCEPT !.pc = @ + 1]
    ELSE EndFunction([m EXCEPT !.rows[m.fn].bound = TRUE], "Ok")

\* The transaction of m wrote the values the tables s have and the store had
\* not.
Owns(m, s) ==
    [m EXCEPT !.transaction.values = @ \cup ((Len(values) + 1)..Len(s.values))]

\* The call returned none or an error: `?` returns it from the function and
\* from migrate, to the caller whose transaction the writes are in.
ReturnErr(m, err) ==
    EndFunction([m EXCEPT !.ended = [fn |-> m.fn, line |-> Program(m.fn)[m.pc].line,
                                     call |-> Program(m.fn)[m.pc].call]],
                err)

\* The call returned and the synchronous code after it returns an error
\* through `?`: the call of the next await is not made.
ReturnErrAfter(m, err) ==
    EndFunction([m EXCEPT !.ended = [fn |-> m.fn, line |-> Program(m.fn)[m.pc].post_line,
                                     call |-> Program(m.fn)[m.pc].post]],
                err)

\* migrate(ctx) is called, in a unit of work its caller began.
Migrate ==
    /\ schemas.fn = 0
    /\ ~schemas.transaction.open
    /\ schemas.runs < MaxMigrations
    /\ schemas' = [schemas EXCEPT !.fn = 1, !.pc = 1, !.status = "running",
                                  !.ended = NotEnded,
                                  !.transaction = [NoTransaction EXCEPT
                                                      !.open = TRUE,
                                                      !.prototypes = Len(prototypes)]]
    /\ UNCHANGED <<values, prototypes, links>>
    /\ UNCHANGED migrationIdle

\* Bound: the calls of migrate in the specifications that follow another
\* caller of the store, or the executor, to the end.
MaxInstalls == 1

MigrateOnce == schemas.runs < MaxInstalls /\ Migrate

\* create_schema(..).await? and the match on it: the schema, or the early
\* return.
CreateSchema ==
    /\ At("create_schema")
    /\ LET schema == create_schema(schemas.rows, schemas.fn)
       IN  schemas' = IF AfterCreateSchema(schema) = "return"
                      THEN EndFunction(schemas, "Ok")
                      ELSE Continue([schemas EXCEPT
                                        !.rows[schemas.fn].exists = TRUE,
                                        !.transaction.schemas = @ \cup {schemas.fn}])
    /\ UNCHANGED <<values, prototypes, links>>
    /\ UNCHANGED migrationIdle

\* What a call on the tables that are not modelled can come to: it answers
\* and the function goes on to its next await; it answers none where the
\* function has an ok_or for that; the synchronous code after it returns an
\* error where it has a `?`.
UntrackedAnswers(instr) ==
    {"some"} \cup (IF instr.err # "" THEN {"none"} ELSE {})
             \cup (IF instr.post # "" THEN {"post"} ELSE {})

\* A call on the tables that are not modelled, up to the next await.
UntrackedCall ==
    /\ schemas.fn # 0
    /\ Instr.call \in UntrackedCalls
    /\ \E answer \in UntrackedAnswers(Instr) :
           schemas' = CASE answer = "none" -> ReturnErr(schemas, Instr.err)
                        [] answer = "post" -> ReturnErrAfter(schemas, PostErr(Instr.post))
                        [] OTHER -> Continue(schemas)
    /\ UNCHANGED <<values, prototypes, links>>
    /\ UNCHANGED migrationIdle

\* setup_identity_func(ctx).await?: the identity function and its argument.
SetupIdentityFunc ==
    /\ At("setup_identity_func")
    /\ schemas' = Continue([schemas EXCEPT !.locals.identity = TRUE])
    /\ UNCHANGED <<values, prototypes, links>>
    /\ UNCHANGED migrationIdle

\* InternalProvider::new_explicit_with_socket(..).await?.
NewExplicitWithSocket ==
    /\ At("new_explicit_with_socket")
    /\ LET s == new_explicit_with_socket(TheStore, schemas.fn, Instr.arg)
       IN  /\ values' = s.values
           /\ prototypes' = s.prototypes
           /\ links' = s.links
           /\ schemas' = IF s.status = "Ok" THEN Continue(Owns(schemas, s))
                         ELSE ReturnErr(Owns(schemas, s), s.status)
    /\ UNCHANGED migrationIdle

\* ExternalProvider::new_with_socket(..).await?: the function keeps the
\* provider, and with it the id of its prototype.
NewWithSocket ==
    /\ At("new_with_socket")
    /\ LET s == new_with_socket(TheStore, schemas.fn, Instr.arg)
       IN  /\ values' = s.values
           /\ prototypes' = s.prototypes
           /\ links' = s.links
           /\ schemas' = IF s.status = "Ok"
                         THEN Continue([Owns(schemas, s) EXCEPT
                                           !.locals.external_prototype = Len(s.prototypes)])
                         ELSE ReturnErr(Owns(schemas, s), s.status)
    /\ UNCHANGED migrationIdle

\* schema_variant.finalize(ctx).await?.
Finalize ==
    /\ At("finalize")
    /\ \E level \in ScaffoldLevels, without \in LeftWithout(schemas.fn, schemas.scaffolding) :
           LET s == finalize(TheStore, schemas.fn, level, without)
           IN  /\ values' = s.values
               /\ prototypes' = s.prototypes
               /\ links' = s.links
               /\ schemas' = IF s.status = "Ok"
                             THEN Continue([Owns(schemas, s) EXCEPT
                                               !.rows[schemas.fn].finalized = TRUE])
                             ELSE ReturnErr(Owns(schemas, s), s.status)
    /\ UNCHANGED migrationIdle

\* AttributeValue::find_for_context(ctx, { prop, ..base }).await?.ok_or(err)?.
MigrationFindForContext ==
    /\ At("find_for_context")
    /\ LET rc == SchemaPropReadContext(schemas.fn, schemas.fn, Instr.arg)
           attribute_value == find_for_context(values, rc)
       IN  schemas' = IF attribute_value = NONE
                      THEN ReturnErr(schemas, Instr.err)
                      ELSE Continue([schemas EXCEPT !.locals.value = attribute_value])
    /\ UNCHANGED <<values, prototypes, links>>
    /\ UNCHANGED migrationIdle

\* The item context is built (to_context()?), then
\* AttributeValue::insert_for_context(ctx, context, tags map value, None,
\* Some("Name")).await?.
MigrationInsertForContext ==
    /\ At("insert_for_context")
    /\ LET built == TagsItemContext(schemas.fn)
           r == insert_for_context(values, links, prototypes, built.ctx,
                                   schemas.locals.value, 1)
           status == IF built.status # "Ok" THEN built.status ELSE r.status
       IN  /\ values' = IF status = "Ok" THEN r.rows ELSE values
           /\ links' = IF status = "Ok" THEN r.links ELSE links
           /\ prototypes' = IF status = "Ok" THEN r.prototypes ELSE prototypes
           /\ schemas' = IF status = "Ok"
                         THEN Continue([Owns(schemas, [values |-> r.rows])
                                           EXCEPT !.locals.value = r.id])
                         ELSE ReturnErr(schemas, status)
    /\ UNCHANGED migrationIdle

\* InternalProvider::get_for_prop(ctx, prop).await?.ok_or_else(err)?.
MigrationGetForProp ==
    /\ At("get_for_prop")
    /\ LET provider == get_for_prop(values, schemas.fn, Instr.arg)
       IN  schemas' = IF provider = NONE
                      THEN ReturnErr(schemas, Instr.err)
                      ELSE Continue([schemas EXCEPT !.locals.provider = provider])
    /\ UNCHANGED <<values, prototypes, links>>
    /\ UNCHANGED migrationIdle

\* AttributeValue::get_by_id(ctx, &id).await?.ok_or(err)?: the item again,
\* by the id insert_for_context returned.
MigrationGetById ==
    /\ At("get_by_id")
    /\ LET attribute_value == get_by_id(values, schemas.locals.value)
       IN  schemas' = IF attribute_value = NONE
                      THEN ReturnErr(schemas, Instr.err)
                      ELSE Continue([schemas EXCEPT !.locals.value = attribute_value])
    /\ UNCHANGED <<values, prototypes, links>>
    /\ UNCHANGED migrationIdle

\* attribute_value.attribute_prototype(ctx).await?.ok_or(err)?.
MigrationAttributePrototype ==
    /\ At("attribute_prototype")
    /\ LET prototype == attribute_prototype(links, schemas.locals.value)
       IN  schemas' = IF prototype = NONE
                      THEN ReturnErr(schemas, Instr.err)
                      ELSE Continue([schemas EXCEPT !.locals.prototype = prototype])
    /\ UNCHANGED <<values, prototypes, links>>
    /\ UNCHANGED migrationIdle

\* prototype.set_func_id(ctx, identity_func_id).await?.
MigrationSetFuncId ==
    /\ At("set_func_id")
    /\ prototypes' = set_func_id(prototypes, schemas.locals.prototype, identity_func_id)
    /\ schemas' = Continue(schemas)
    /\ UNCHANGED <<values, links>>
    /\ UNCHANGED migrationIdle

\* FuncArgument::find_by_name_for_func(ctx, "identity", identity_func_id)
\* .await?.ok_or_else(err)?: the argument setup_identity_func found.
MigrationFindByNameForFunc ==
    /\ At("find_by_name_for_func")
    /\ schemas' = IF schemas.locals.identity
                  THEN Continue(schemas)
                  ELSE ReturnErr(schemas, Instr.err)
    /\ UNCHANGED <<values, prototypes, links>>
    /\ UNCHANGED migrationIdle

\* AttributePrototypeArgument::new_for_intra_component(ctx, prototype,
\* identity argument, provider).await?: the provider is one the function
\* made (an explicit one) or the one get_for_prop gave.  In security_group
\* the synchronous code after the call of line 1083 takes the prototype of
\* the external provider (attribute_prototype_id().ok_or_else(..)?, lines
\* 1093-1100), which the next new_for_intra_component binds.
MigrationNewForIntraComponent ==
    /\ At("new_for_intra_component")
    /\ LET provider == IF Instr.arg = NONE THEN schemas.locals.provider ELSE Instr.arg
           m == [schemas EXCEPT !.args = new_for_intra_component(
                                             @, schemas.locals.prototype, provider)]
       IN  schemas' = IF Instr.post # "attribute_prototype_id"
                      THEN Continue(m)
                      ELSE IF schemas.locals.external_prototype = NONE
                      THEN ReturnErrAfter(m, PostErr(Instr.post))
                      ELSE Continue([m EXCEPT !.locals.prototype =
                                                  schemas.locals.external_prototype])
    /\ UNCHANGED <<values, prototypes, links>>
    /\ UNCHANGED migrationIdle

\* ---- the caller of migrate ends its unit of work ----

\* migrate returned Ok(()) and its caller commits.
CommitMigration ==
    /\ schemas.fn = 0
    /\ schemas.transaction.open
    /\ schemas.status = "Ok"
    /\ schemas' = [schemas EXCEPT !.transaction = NoTransaction]
    /\ UNCHANGED <<values, prototypes, links>>
    /\ UNCHANGED migrationIdle

\* The id a value has once the values of `own` are gone (an id is the place
\* of a row among the rows there are): none for a value that is gone.
IdWithout(own, id) ==
    IF id = NONE \/ id \in own THEN NONE
    ELSE Cardinality({k \in 1..id : k \notin own})

\* The rows that stay, in their order.
RowsWithout(own) ==
    [j \in 1..Cardinality(DOMAIN values \ own) |->
        values[CHOOSE i \in DOMAIN values \ own : IdWithout(own, i) = j]]

\* migrate returned an error and its caller rolls back: the values, the
\* prototypes with their arguments, the links and the schemas the unit of work
\* wrote are gone (in these migrations a unit of work changes no row it did
\* not write); the rows other units of work committed stay, and what names
\* one of them by its id goes on naming it.
RollbackMigration ==
    /\ schemas.fn = 0
    /\ schemas.transaction.open
    /\ schemas.status # "Ok"
    /\ LET own == schemas.transaction.values
           first == schemas.transaction.prototypes
       IN  /\ values' = RowsWithout(own)
           /\ prototypes' = SubSeq(prototypes, 1, first)
           /\ links' = [parent |-> {<<IdWithout(own, l[1]), IdWithout(own, l[2])>> :
                                       l \in {k \in links.parent :
                                                  k[1] \notin own /\ k[2] \notin own}},
                        prototype |-> {<<IdWithout(own, l[1]), l[2]>> :
                                          l \in {k \in links.prototype :
                                                     k[1] \notin own /\ k[2] <= first}}]
           /\ created' = [k \in DOMAIN created |->
                              [created[k] EXCEPT !.id = IdWithout(own, @)]]
           /\ storeResult' = [storeResult EXCEPT !.id = IdWithout(own, @)]
           /\ handle' = [handle EXCEPT !.id = IdWithout(own, @)]
           /\ schemas' = [schemas EXCEPT
                              !.transaction = NoTransaction,
                              !.rows = [n \in DOMAIN @ |->
                                           IF n \in schemas.transaction.schemas
                                           THEN NoSchema ELSE @[n]],
                              !.args = {a \in @ : a[1] <= first},
                              !.queue = [j \in DOMAIN @ |->
                                            [x \in DOMAIN @[j] |-> IdWithout(own, @[j][x])]]]
    /\ UNCHANGED <<insertedAt, clock, builder, ctxResult,
                   parentType, parentSockets, childSockets, avMissing, db, req, other, log>>

\* ---- a provider's value changes and the change is propagated ----

\* The values other units of work see: those that are committed.
Committed == DOMAIN values \ schemas.transaction.values

\* set_func_binding_return_value_id on the value of an internal provider, by
\* any unit of work, at any time: the setter writes the column and enqueues
\* nothing.
ProviderValueChanges ==
    \E id \in Committed, v \in 1..MaxReturnValues :
        /\ schemas.changes < MaxChanges
        /\ values[id].context.internal_provider_id # NONE
        /\ values[id].func_binding_return_value_id # v
        /\ values' = set_func_binding_return_value_id(values, id, v)
        /\ schemas' = [schemas EXCEPT !.changes = @ + 1]
        /\ UNCHANGED <<prototypes, links>>
        /\ UNCHANGED migrationIdle

\* ctx.enqueue_job(DependentValuesUpdate::new(ctx, vec![id])), by any unit of
\* work, at any time: the value of a provider, internal or external, is
\* enqueued as the root of a job.
EnqueueDependentValuesUpdate ==
    \E id \in Committed :
        /\ schemas.ran + Len(schemas.queue) < MaxJobs
        /\ \/ values[id].context.internal_provider_id # NONE
           \/ values[id].context.external_provider_id # NONE
        /\ schemas' = [schemas EXCEPT !.queue = Append(@, <<id>>)]
        /\ UNCHANGED <<values, prototypes, links>>
        /\ UNCHANGED migrationIdle

\* The committed values computed by the identity function from the internal
\* provider whose value is `from`, in the same schema: those whose prototype
\* has the identity function, with its argument bound to that provider.
TakersOf(from) ==
    {l[1] : l \in {k \in links.prototype :
                       /\ k[1] \in Committed
                       /\ values[from].context.internal_provider_id # NONE
                       /\ <<k[2], values[from].context.internal_provider_id>> \in schemas.args
                       /\ prototypes[k[2]].func_id = identity_func_id
                       /\ prototypes[k[2]].context.schema_id
                              = values[from].context.schema_id}}

\* The walk of the dependency graph from the roots of a job, as pairs
\* <<value, root>>: the values that take the root's, then the values that take
\* those, each value once.
RECURSIVE Downstream(_, _)
Downstream(frontier, seen) ==
    LET next == {q \in UNION {{<<id, p[2]>> : id \in TakersOf(p[1])} : p \in frontier} :
                     \A p \in seen : p[1] # q[1]}
    IN  IF next = {} THEN seen ELSE Downstream(next, seen \cup next)

\* The rows when the values of the walk are computed again through their
\* prototypes: the identity function gives each the result of its root.
Recomputed(rows, reached) ==
    [id \in DOMAIN rows |->
        IF \E p \in reached : p[1] = id
        THEN [rows[id] EXCEPT
                 !.func_binding_return_value_id =
                     rows[(CHOOSE p \in reached : p[1] = id)[2]]
                         .func_binding_return_value_id]
        ELSE rows[id]]

\* The executor runs the oldest job: the values downstream of its roots are
\* computed again through their prototypes.
RunJob ==
    /\ schemas.queue # <<>>
    /\ schemas' = [schemas EXCEPT !.queue = Tail(@), !.ran = @ + 1]
    /\ \E reached \in {Downstream({<<Head(schemas.queue)[x], Head(schemas.queue)[x]>> :
                                       x \in DOMAIN Head(schemas.queue)},
                                  {<<Head(schemas.queue)[x], Head(schemas.queue)[x]>> :
                                       x \in DOMAIN Head(schemas.queue)})} :
           values' = Recomputed(values, reached)
    /\ UNCHANGED <<prototypes, links>>
    /\ UNCHANGED migrationIdle


(***************************************************************************)
(* Specifications                                                          *)
(***************************************************************************)

CtxIdle == builder = DefaultBuilder /\ ctxResult = NoResult

StoreIdle ==
    /\ values = <<>>
    /\ handle = NoHandle
    /\ storeResult = NoStoreResult
    /\ created = <<>>
    /\ insertedAt = [k \in Keys |-> NeverInserted]
    /\ clock = 0
    /\ prototypes = <<>>
    /\ links = NoLinks

WiringIdle ==
    /\ parentType = "Component"
    /\ parentSockets = <<>>
    /\ childSockets = <<>>
    /\ avMissing = 0
    /\ db = EmptyDb
    /\ req = Idle
    /\ other = Idle
    /\ log = <<>>

FrameIdle == schemas = NoSchemas /\ WiringIdle

\* --- SpecCtx: a builder whose fields are set in any order, then built ---
\* Values of prop 1 at the context of the prop alone: none, one, or two that
\* differ by their key.
PropRows ==
    {<<>>,
     <<NewRow(NONE, prop_context(1), NONE)>>,
     <<NewRow(NONE, prop_context(1), NONE), NewRow(NONE, prop_context(1), 1)>>}

InitCtx ==
    /\ CtxIdle /\ FrameIdle
    /\ values \in PropRows
    /\ handle = NoHandle
    /\ storeResult = NoStoreResult
    /\ created = <<>>
    /\ insertedAt = [k \in Keys |-> NeverInserted]
    /\ clock = 0
    /\ prototypes = <<>>
    /\ links = NoLinks

NextCtx ==
    \/ BuilderNew
    \/ set_prop_id
    \/ set_internal_provider_id
    \/ set_external_provider_id
    \/ set_schema_id
    \/ set_schema_variant_id
    \/ set_component_id
    \/ ToContext
    \/ find_for_prop

SpecCtx == InitCtx /\ [][NextCtx]_vars

\* --- SpecLookup: values created at contexts of every level, then looked up ---
TheProps == {1, 2}
TheComponents == {1, 2}

\* Contexts of the four levels for a prop of schema 1, schema variant 1.
CreateContexts ==
    {[DefaultBuilder EXCEPT !.prop_id = p] : p \in TheProps}
    \cup {[DefaultBuilder EXCEPT !.prop_id = p, !.schema_id = 1] : p \in TheProps}
    \cup {[DefaultBuilder EXCEPT !.prop_id = p, !.schema_id = 1, !.schema_variant_id = 1] :
            p \in TheProps}
    \cup {[DefaultBuilder EXCEPT !.prop_id = p, !.schema_id = 1, !.schema_variant_id = 1,
                                 !.component_id = c] : p \in TheProps, c \in TheComponents}

\* Read contexts for a prop: each scoping field unconstrained, unset or concrete.
ReadContexts ==
    {[prop_id |-> p, internal_provider_id |-> NONE, external_provider_id |-> NONE,
      schema_id |-> s, schema_variant_id |-> v, component_id |-> c] :
        p \in TheProps, s \in {ANY, NONE, 1}, v \in {ANY, NONE, 1},
        c \in {ANY, NONE} \cup TheComponents}

NewForLookup == \E c \in CreateContexts : AttributeValueNew(NONE, c, NONE)

\* A lookup changes no row: a lookup straight after a lookup reaches nothing new.
LookupForContext ==
    /\ storeResult.op # "find_for_context"
    /\ \E rc \in ReadContexts : FindForContext(rc)

InitLookup == CtxIdle /\ StoreIdle /\ FrameIdle

NextLookup == NewForLookup \/ FinishCreate \/ LookupForContext

SpecLookup == InitLookup /\ [][NextLookup]_vars

\* --- SpecProxy: values of one prop at three levels, proxied and sealed ---
ProxyContexts ==
    {[DefaultBuilder EXCEPT !.prop_id = 1, !.schema_id = 1],
     [DefaultBuilder EXCEPT !.prop_id = 1, !.schema_id = 1, !.schema_variant_id = 1],
     [DefaultBuilder EXCEPT !.prop_id = 1, !.schema_id = 1, !.schema_variant_id = 1,
                            !.component_id = 1]}

NewForProxy ==
    \E c \in ProxyContexts, v \in {NONE} \cup (1..MaxReturnValues) :
        AttributeValueNew(v, c, NONE)

InitProxy == CtxIdle /\ StoreIdle /\ FrameIdle

NextProxy ==
    \/ NewForProxy
    \/ FinishCreate
    \/ SetFuncBindingReturnValueId
    \/ SetProxyForAttributeValueId
    \/ SetSealedProxy

SpecProxy == InitProxy /\ [][NextProxy]_vars

\* --- SpecIndex: a map-typed value whose index_map is edited and stored ---
IndexContexts ==
    {[DefaultBuilder EXCEPT !.prop_id = p, !.schema_id = 1, !.schema_variant_id = 1] :
        p \in TheProps}

NewForIndex == \E c \in IndexContexts : AttributeValueNew(NONE, c, NONE)

InitIndex == CtxIdle /\ StoreIdle /\ FrameIdle

NextIndex ==
    \/ NewForIndex
    \/ FinishCreate
    \/ GetById
    \/ DropHandle
    \/ SetIndexMap
    \/ AssignIndexMap
    \/ IndexMapPush
    \/ IndexMapRemove
    \/ UpdateStoredIndexMap

SpecIndex == InitIndex /\ [][NextIndex]_vars


\* --- SpecInsert: children inserted under two map values ---
\* The values of the map props 2 (tags) of two schema variants' scaffolding,
\* each an empty map.
MapRows ==
    << [NewRow(NONE, [DefaultBuilder EXCEPT !.prop_id = 2, !.schema_id = 1,
                                            !.schema_variant_id = 1], NONE)
            EXCEPT !.index_map = EmptyIndexMap],
       [NewRow(NONE, [DefaultBuilder EXCEPT !.prop_id = 2, !.schema_id = 1,
                                            !.schema_variant_id = 2], NONE)
            EXCEPT !.index_map = EmptyIndexMap] >>

InitInsert ==
    /\ CtxIdle /\ FrameIdle
    /\ values = MapRows
    /\ handle = NoHandle
    /\ storeResult = NoStoreResult
    /\ created = <<>>
    /\ insertedAt = [k \in Keys |-> NeverInserted]
    /\ clock = 0
    /\ prototypes = <<>>
    /\ links = NoLinks

\* The key of a child of a map is set anew.
SetKeyOfChild ==
    /\ SetKey
    /\ parent_attribute_value(links, storeResult'.id) # NONE

NextInsert == InsertForContext \/ SetKeyOfChild

SpecInsert == InitInsert /\ [][NextInsert]_vars

\* --- SpecMigrate: migrate called up to MaxMigrations times, while providers change ---
InitMigrate == CtxIdle /\ StoreIdle /\ FrameIdle

NextMigrate ==
    \/ Migrate
    \/ CreateSchema
    \/ UntrackedCall
    \/ SetupIdentityFunc
    \/ NewExplicitWithSocket
    \/ NewWithSocket
    \/ Finalize
    \/ MigrationFindForContext
    \/ MigrationInsertForContext
    \/ MigrationGetForProp
    \/ MigrationGetById
    \/ MigrationAttributePrototype
    \/ MigrationSetFuncId
    \/ MigrationFindByNameForFunc
    \/ MigrationNewForIntraComponent
    \/ CommitMigration
    \/ RollbackMigration
    \/ ProviderValueChanges
    \/ EnqueueDependentValuesUpdate
    \/ RunJob

SpecMigrate == InitMigrate /\ [][NextMigrate]_vars

\* The migrations alone, with the caller that commits them or rolls them back.
NextInstall ==
    \/ Migrate
    \/ CreateSchema
    \/ UntrackedCall
    \/ SetupIdentityFunc
    \/ NewExplicitWithSocket
    \/ NewWithSocket
    \/ Finalize
    \/ MigrationFindForContext
    \/ MigrationInsertForContext
    \/ MigrationGetForProp
    \/ MigrationGetById
    \/ MigrationAttributePrototype
    \/ MigrationSetFuncId
    \/ MigrationFindByNameForFunc
    \/ MigrationNewForIntraComponent
    \/ CommitMigration
    \/ RollbackMigration

SpecInstall == InitMigrate /\ [][NextInstall]_vars

\* One call of migrate, the other units of work and the executor.
NextPropagate ==
    \/ MigrateOnce
    \/ CreateSchema
    \/ UntrackedCall
    \/ SetupIdentityFunc
    \/ NewExplicitWithSocket
    \/ NewWithSocket
    \/ Finalize
    \/ MigrationFindForContext
    \/ MigrationInsertForContext
    \/ MigrationGetForProp
    \/ MigrationGetById
    \/ MigrationAttributePrototype
    \/ MigrationSetFuncId
    \/ MigrationFindByNameForFunc
    \/ MigrationNewForIntraComponent
    \/ CommitMigration
    \/ RollbackMigration
    \/ ProviderValueChanges
    \/ EnqueueDependentValuesUpdate
    \/ RunJob

SpecPropagate == InitMigrate /\ [][NextPropagate]_vars

\* The executor takes every job it is given.
SpecPropagateFair == SpecPropagate /\ WF_vars(RunJob)

\* --- SpecBuiltins: migrate over a scaffolding with a bug and a value made by another caller ---
\* Bound: the values the other caller makes.
MaxBuiltinValues == 1

\* The props the blocks of schema n bind: the region, and the group id or the
\* group name.
BoundProps(n) == {region_prop, IF n = 3 THEN group_name_prop ELSE group_id_prop}

\* Where the other caller makes a value: a prop the blocks bind, at the schema
\* or at the schema variant.
BuiltinContexts ==
    UNION {{ScaffoldContext(n, p, level) : p \in BoundProps(n), level \in ScaffoldLevels} :
              n \in DOMAIN SchemaNames}

\* The other caller makes a value, before, during or after a migration; its
\* unit of work is that one call.
NewForBuiltins ==
    \E c \in BuiltinContexts :
        Len(created) < MaxBuiltinValues /\ AttributeValue_new(NONE, c, NONE)

InitBuiltins ==
    /\ CtxIdle /\ StoreIdle /\ WiringIdle
    /\ schemas = [NoSchemas EXCEPT !.scaffolding = "partial"]

NextBuiltins ==
    \/ NewForBuiltins
    \/ FinishCreate
    \/ MigrateOnce
    \/ CreateSchema
    \/ UntrackedCall
    \/ SetupIdentityFunc
    \/ NewExplicitWithSocket
    \/ NewWithSocket
    \/ Finalize
    \/ MigrationFindForContext
    \/ MigrationInsertForContext
    \/ MigrationGetForProp
    \/ MigrationGetById
    \/ MigrationAttributePrototype
    \/ MigrationSetFuncId
    \/ MigrationFindByNameForFunc
    \/ MigrationNewForIntraComponent
    \/ CommitMigration
    \/ RollbackMigration

SpecBuiltins == InitBuiltins /\ [][NextBuiltins]_vars

\* --- SpecLinks: values with prototypes, linked and relinked ---
\* A String prop and a Map prop of one schema variant.
LinkContexts ==
    {[DefaultBuilder EXCEPT !.prop_id = p, !.schema_id = 1, !.schema_variant_id = 1] :
        p \in TheProps}

PrototypeNewForLinks ==
    \E func_id \in 1..MaxFuncId, c \in LinkContexts : AttributePrototypeNew(func_id, c, NONE)

InitLinks == CtxIdle /\ StoreIdle /\ FrameIdle

NextLinks ==
    \/ PrototypeNewForLinks
    \/ SetAttributePrototype
    \/ UnsetAttributePrototype
    \/ SetParentAttributeValue
    \/ UnsetParentAttributeValue
    \/ SetFuncId

SpecLinks == InitLinks /\ [][NextLinks]_vars

\* --- SpecFrame: a parent P and children A, B in a world drawn at the start ---
InitFrame ==
    /\ CtxIdle
    /\ parentType \in ComponentTypes
    /\ parentSockets \in SeqsUpTo(ParentSocketShapes, MaxParentSockets)
    /\ childSockets \in SeqsUpTo(ChildSocketShapes, MaxChildSockets)
    /\ avMissing \in 0..Len(parentSockets)
    /\ avMissing > 0 =>
           \/ parentSockets[avMissing].internal_provider # ""
           \/ parentSockets[avMissing].external_provider # ""
    /\ values = WorldRows(FrameSockets \o parentSockets, 1)
    /\ handle = NoHandle
    /\ storeResult = NoStoreResult
    /\ created = <<>>
    /\ insertedAt = [k \in Keys |-> NeverInserted]
    /\ clock = 0
    /\ prototypes = <<>>
    /\ links = NoLinks
    /\ db = EmptyDb
    /\ req = Idle
    /\ other = Idle
    /\ log = <<>>
    /\ schemas = NoSchemas

\* A and B are instances of one schema variant: B is wired only after a first request.
Request ==
    \E entry \in {"handler", "direct"} :
        \/ Begin(entry, "P", "A")
        \/ Begin(entry, "P", "Z")
        \/ Begin(entry, "Z", "A")
        \/ (log # <<>> /\ Begin(entry, "P", "B"))

NextFrame ==
    \/ Request
    \/ FrameSocketForNode
    \/ SymbolicConnection
    \/ FindForNode
    \/ SocketsForComponent
    \/ GetTypeOfParent
    \/ FindExplicitForSocket
    \/ ConnectInternalProviders
    \/ EdgeToParent
    \/ FindForSocket
    \/ ConnectExternalProviders
    \/ EdgeToChild
    \/ ExternalProviderOfSocket
    \/ InternalProviderOfSocket
    \/ ConfigurationConnection
    \/ FindValueForContext
    \/ EnqueueDependentValues
    \/ ChangeSetWritten
    \/ PublishOnCommit
    \/ Commit
    \/ Rollback
    \/ Return

SpecFrame == InitFrame /\ [][NextFrame]_vars


\* --- SpecConcurrent: two frame connection requests served at once ---
InitConcurrent ==
    /\ CtxIdle
    /\ parentType \in {"ConfigurationFrame", "AggregationFrame"}
    /\ parentSockets \in SeqsUpTo(ParentSocketShapes, 1)
    /\ childSockets \in SeqsUpTo(ChildSocketShapes, 1)
    /\ avMissing \in 0..Len(parentSockets)
    /\ avMissing > 0 =>
           \/ parentSockets[avMissing].internal_provider # ""
           \/ parentSockets[avMissing].external_provider # ""
    /\ values = WorldRows(FrameSockets \o parentSockets, 1)
    /\ handle = NoHandle
    /\ storeResult = NoStoreResult
    /\ created = <<>>
    /\ insertedAt = [k \in Keys |-> NeverInserted]
    /\ clock = 0
    /\ prototypes = <<>>
    /\ links = NoLinks
    /\ db = EmptyDb
    /\ req = Idle
    /\ other = Idle
    /\ log = <<>>
    /\ schemas = NoSchemas

RequestConcurrent == Begin("handler", "P", "A") \/ Begin("handler", "P", "B")

NextConcurrent ==
    \/ RequestConcurrent
    \/ FrameSocketForNode
    \/ SymbolicConnection
    \/ FindForNode
    \/ SocketsForComponent
    \/ GetTypeOfParent
    \/ FindExplicitForSocket
    \/ ConnectInternalProviders
    \/ EdgeToParent
    \/ FindForSocket
    \/ ConnectExternalProviders
    \/ EdgeToChild
    \/ ExternalProviderOfSocket
    \/ InternalProviderOfSocket
    \/ ConfigurationConnection
    \/ FindValueForContext
    \/ EnqueueDependentValues
    \/ ChangeSetWritten
    \/ PublishOnCommit
    \/ Commit
    \/ Rollback
    \/ Switch

SpecConcurrent == InitConcurrent /\ [][NextConcurrent]_vars


(***************************************************************************)
(* Claims                                                                  *)
(***************************************************************************)

\* C1: building an AttributeContext succeeds if and only if at most one of
\* prop_id, internal_provider_id, external_provider_id is concrete, whatever
\* the scoping fields are; a failed build is an AttributeContextBuilder error
\* and yields no context; find_for_prop, which sets the prop id only, never
\* ends with that error: its context has the one discriminator.
C1_BuildIffAtMostOneDiscriminator ==
    /\ ctxResult.op = "to_context" =>
           /\ (ctxResult.status = "Ok") <=> (Discriminators(builder) <= 1)
           /\ ctxResult.status = "Ok" => ctxResult.ctx = builder
           /\ ctxResult.status # "Ok" =>
                  /\ ctxResult.status = "AttributeContextBuilder"
                  /\ ctxResult.ctx = DefaultBuilder
    /\ ctxResult.op = "find_for_prop" =>
           /\ ctxResult.status # "AttributeContextBuilder"
           /\ Discriminators(ctxResult.ctx) = 1
           /\ ctxResult.ctx.prop_id # NONE

\* A build with two discriminators and all three scoping fields set was refused.
C1_Witness ==
    /\ ctxResult.op = "to_context"
    /\ ctxResult.status = "AttributeContextBuilder"
    /\ Discriminators(builder) = 2
    /\ builder.schema_id # NONE /\ builder.schema_variant_id # NONE
    /\ builder.component_id # NONE

\* C9: a value created at a component-level context is found again, with the
\* same id, by a lookup with that exact context; a lookup whose context is
\* less specific (component unset) never returns a component-level value, and
\* finds nothing when only component-level values exist for the prop.
C9_RoundTripNoUpwardLeak ==
    storeResult.op = "find_for_context" =>
        /\ \A k \in DOMAIN created :
               Rank(created[k].context) = 3 =>
                   /\ storeResult.context = created[k].context
                          => storeResult.id = created[k].id
                   /\ storeResult.context.component_id = NONE
                          => storeResult.id # created[k].id
        /\ ( /\ storeResult.context.component_id = NONE
             /\ \A k \in DOMAIN created :
                    created[k].context.prop_id = storeResult.context.prop_id
                        => Rank(created[k].context) = 3 )
           => storeResult.id = NONE

\* A component-level value exists beside a less specific one for the same
\* prop, and the exact lookup returned the component-level one.
C9_Witness ==
    /\ storeResult.op = "find_for_context"
    /\ storeResult.id # NONE
    /\ \E k \in DOMAIN created :
           /\ Rank(created[k].context) = 3
           /\ storeResult.context = created[k].context
           /\ storeResult.id = created[k].id
           /\ \E j \in DOMAIN created :
                  /\ j < k
                  /\ created[j].context.prop_id = created[k].context.prop_id
                  /\ Rank(created[j].context) < 3

C10_Candidates ==
    {k \in DOMAIN created : InContext(storeResult.context, created[k].context)}

\* C10: a lookup returns a value exactly when some created value is at or
\* below the requested context, and the value returned is one of those of
\* the highest specificity (component > schema variant > schema > global).
C10_MostSpecificWins ==
    storeResult.op = "find_for_context" =>
        /\ (storeResult.id = NONE) <=> (C10_Candidates = {})
        /\ storeResult.id # NONE =>
               \E k \in C10_Candidates :
                   /\ created[k].id = storeResult.id
                   /\ \A j \in C10_Candidates :
                          Rank(created[j].context) <= Rank(created[k].context)

\* Three levels exist for one prop; a component-scoped lookup returned the
\* component-level value although less specific ones were created first.
C10_Witness ==
    /\ storeResult.op = "find_for_context"
    /\ Cardinality({Rank(created[k].context) : k \in C10_Candidates}) = 3
    /\ storeResult.id = 3
    /\ Rank(values[3].context) = 3

\* C6: a value that is a proxy for u and is not sealed reads as the current
\* computed result of u, after any updates of u.
C6_ProxyReadsCurrentResult ==
    \A v \in DOMAIN values :
        ( /\ values[v].proxy_for_attribute_value_id # NONE
          /\ ~values[v].sealed_proxy )
        => func_binding_return_value_id(values, v)
             = func_binding_return_value_id(values, values[v].proxy_for_attribute_value_id)

\* C7: once sealed_proxy is true it is never false again.
C7_SealIsPermanent ==
    [][\A v \in DOMAIN values : values[v].sealed_proxy => values'[v].sealed_proxy]_vars

\* The keys pushed into the index_map of value p and not removed since.
C8_Present(p) == {k \in Keys : insertedAt[k].into = p /\ ~insertedAt[k].removed}

C8_InInsertionOrder(order, p) ==
    /\ {order[i] : i \in DOMAIN order} = C8_Present(p)
    /\ \A i, j \in DOMAIN order :
           i < j => insertedAt[order[i]].at < insertedAt[order[j]].at

\* C8: the index_map read from a value lists exactly the keys inserted and
\* not removed, each once, in the order of their insertion; this holds of
\* the object being edited and of the map read back after it was stored.
C8_IndexMapKeepsInsertionOrder ==
    handle.id # NONE =>
        /\ C8_InInsertionOrder(handle.index_map.order, handle.id)
        /\ handle.saved => values[handle.id].index_map = handle.index_map

\* Three keys were inserted, the first of them removed, the map stored and
\* read back: the other two are read in their order of insertion.
C8_Witness ==
    /\ storeResult.op = "get_by_id"
    /\ clock = 3
    /\ Len(handle.index_map.order) = 2
    /\ \E k \in Keys : insertedAt[k].removed /\ insertedAt[k].at = 1
    /\ handle.index_map.order[1] > handle.index_map.order[2]

\* ---- frame wiring ----

\* The connections, edges, links and jobs connect_component_sockets_to_frame
\* itself made in the transaction in flight.
SocketsConns == SelectSeq(req.t.conns, LAMBDA c : c.by = "sockets")
SocketsEdges == SelectSeq(req.t.edges, LAMBDA e : e.by = "sockets")

\* connect_component_sockets_to_frame has got past its type check or has failed.
PastResolve == req.pc \in {"loop", "event", "commit", "returned"}
               \/ (req.pc = "failed" /\ req.t.status # "FrameSocketNotFound")

\* C2: with a parent of type Component the sockets function never gets past
\* the type check: it fails, with InvalidComponentTypeForFrame when the child
\* node has a component (NodeNotFound for the child is raised first otherwise),
\* and it has made no connection, edge or provider link and queued no job;
\* nothing of the request is in the committed state.
C2_PlainComponentIsRejected ==
    ( /\ PastResolve
      /\ ComponentForNode(req.parent) # NONE
      /\ GetType(ComponentForNode(req.parent)) = "Component" )
    => /\ req.pc = "failed"
       /\ ComponentForNode(req.child) # NONE
              => req.t.status = "InvalidComponentTypeForFrame"
       /\ ComponentForNode(req.child) = NONE
              => req.t.status = "NodeNotFound" /\ req.t.node = req.child
       /\ SocketsConns = <<>> /\ SocketsEdges = <<>>
       /\ req.t.links = <<>> /\ req.t.jobs = <<>>
       /\ \A k \in DOMAIN db.conns : db.conns[k].run # Run
       /\ \A k \in DOMAIN db.edges : db.edges[k].run # Run

\* The handler was refused for a plain parent whose output provider X has an
\* equally named input on the child: only the Symbolic connection was written.
C2_Witness ==
    /\ req.pc = "failed"
    /\ req.entry = "handler"
    /\ req.t.status = "InvalidComponentTypeForFrame"
    /\ Len(req.t.conns) = 1
    /\ \E n \in DOMAIN parentSockets, m \in DOMAIN childSockets :
           /\ parentSockets[n].kind = "Provider" /\ childSockets[m].kind = "Provider"
           /\ parentSockets[n].external_provider = "X"
           /\ childSockets[m].internal_provider = "X"

\* The socket pairs the configuration mode is to connect.
C3_Pairs ==
    LET ps == ListForComponent(ComponentForNode(req.parent))
        cs == ListForComponent(ComponentForNode(req.child))
    IN  {<<ps[n].id, cs[m].id>> : <<n, m>> \in
            {q \in (DOMAIN ps) \X (DOMAIN cs) :
                /\ ps[q[1]].kind # "Frame" /\ cs[q[2]].kind # "Frame"
                /\ ps[q[1]].external_provider # NoProvider
                /\ cs[q[2]].internal_provider # NoProvider
                /\ ps[q[1]].external_provider.name = cs[q[2]].internal_provider.name}}

C3_ConnsOf(pair) ==
    {k \in DOMAIN SocketsConns :
        /\ SocketsConns[k].from_socket = pair[1]
        /\ SocketsConns[k].to_socket = pair[2]}

\* C3: for a ConfigurationFrame parent, every connection the run makes is a
\* Configuration connection from the parent node to the child node for a pair
\* of equally named providers, at most one per pair; a run that returns Ok has
\* made exactly one for each such pair; and with no such pair the run makes
\* none and succeeds.
C3_OneConnectionPerMatchingPair ==
    ( /\ PastResolve
      /\ ComponentForNode(req.parent) # NONE /\ ComponentForNode(req.child) # NONE
      /\ GetType(ComponentForNode(req.parent)) = "ConfigurationFrame" )
    => /\ \A k \in DOMAIN SocketsConns :
              /\ <<SocketsConns[k].from_socket, SocketsConns[k].to_socket>> \in C3_Pairs
              /\ SocketsConns[k].from_node = req.parent
              /\ SocketsConns[k].to_node = req.child
              /\ SocketsConns[k].kind = "Configuration"
       /\ \A pair \in C3_Pairs : Cardinality(C3_ConnsOf(pair)) <= 1
       /\ req.pc \in {"event", "commit", "returned"}
              => \A pair \in C3_Pairs : Cardinality(C3_ConnsOf(pair)) = 1
       /\ C3_Pairs = {} => req.pc # "failed" /\ SocketsConns = <<>>

\* Parent outputs X and Y, child input X only: the run returned Ok with the
\* one connection for X and none for Y.
C3_Witness ==
    /\ req.pc = "event"
    /\ parentType = "ConfigurationFrame"
    /\ Len(SocketsConns) = 1
    /\ \E n \in DOMAIN parentSockets :
           parentSockets[n].kind = "Provider" /\ parentSockets[n].external_provider = "Y"
    /\ \A m \in DOMAIN childSockets : childSockets[m].internal_provider # "Y"

\* The attribute values on the parent's side of an aggregation: those of the
\* parent component's explicit internal providers.
C4_ParentAggregationValues ==
    {v \in DOMAIN values :
        /\ values[v].context.internal_provider_id # NONE
        /\ values[v].context.component_id = 1}

C4_JobsFor(v, runs) ==
    {k \in DOMAIN db.jobs :
        /\ db.jobs[k].run \in runs
        /\ \E x \in DOMAIN db.jobs[k].roots : db.jobs[k].roots[x] = v}

C4_ChildWired(child) ==
    \E k \in DOMAIN db.conns : db.conns[k].kind = "Symbolic" /\ db.conns[k].from_node = child

\* C4 as claimed: with A and B both wired into an aggregation frame, no
\* parent-side aggregation value is enqueued more than once in total.
C4_RootOnceInTotal ==
    (parentType = "AggregationFrame" /\ C4_ChildWired("A") /\ C4_ChildWired("B"))
    => \A v \in C4_ParentAggregationValues : Cardinality(C4_JobsFor(v, DOMAIN log)) <= 1

\* The parent's ConfigurationInput provider sockets whose value is v.
C4_SocketsOf(v) ==
    {n \in DOMAIN parentSockets :
        /\ parentSockets[n].kind = "Provider"
        /\ parentSockets[n].edge_kind = "ConfigurationInput"
        /\ values[v].context.internal_provider_id = n + 2}

\* C4 as amended: every committed wiring call on an aggregation frame has
\* enqueued each parent-side aggregation value it touched exactly once, in a
\* job of one root; so a value is enqueued once per wired child.
C4_RootOncePerCall ==
    parentType = "AggregationFrame" =>
        /\ \A k \in DOMAIN db.jobs : Len(db.jobs[k].roots) = 1
        /\ \A v \in C4_ParentAggregationValues :
               /\ \A r \in DOMAIN log :
                      log[r].committed =>
                          Cardinality(C4_JobsFor(v, {r})) = Cardinality(C4_SocketsOf(v))
               /\ Cardinality(C4_JobsFor(v, DOMAIN log))
                      = Cardinality(C4_SocketsOf(v))
                        * Cardinality({r \in DOMAIN log : log[r].committed})

\* A and B are both wired and a parent-side value was enqueued twice.
C4_Witness ==
    /\ parentType = "AggregationFrame"
    /\ C4_ChildWired("A") /\ C4_ChildWired("B")
    /\ \E v \in C4_ParentAggregationValues : Cardinality(C4_JobsFor(v, DOMAIN log)) = 2

C5_Committed(rows) ==
    \A k \in DOMAIN rows : rows[k].run \in DOMAIN log /\ log[rows[k].run].committed

\* C5: the committed state holds the writes of committed requests only: no
\* connection, edge, provider link or job of a request that failed, or that is
\* still running, is in it; and a committed request left all it wrote, the
\* Symbolic connection included.
C5_AllOrNothing ==
    /\ C5_Committed(db.conns) /\ C5_Committed(db.edges)
    /\ C5_Committed(db.links) /\ C5_Committed(db.jobs)
    /\ \A r \in DOMAIN log :
           /\ log[r].committed => log[r].status = "Ok"
           /\ log[r].committed =>
                  /\ Cardinality({k \in DOMAIN db.conns :
                         db.conns[k].run = r /\ db.conns[k].kind = "Symbolic"}) = 1
                  /\ log[r].written =
                         Cardinality({k \in DOMAIN db.conns : db.conns[k].run = r})
                         + Cardinality({k \in DOMAIN db.edges : db.edges[k].run = r})
                         + Cardinality({k \in DOMAIN db.links : db.links[k].run = r})
                         + Cardinality({k \in DOMAIN db.jobs : db.jobs[k].run = r})
    /\ db.events = Cardinality({r \in DOMAIN log : log[r].committed})

\* A request failed on a missing attribute value after it had written the
\* Symbolic connection and the wiring of an earlier socket; nothing of it is
\* in the committed state.
C5_Witness ==
    /\ log # <<>>
    /\ log[1].status = "AttributeValueNotFoundForContext"
    /\ log[1].written >= 6
    /\ db = EmptyDb

\* C12: connect_component_sockets_to_frame called for a parent node or a child
\* node without a component fails with NodeNotFound naming that node (the
\* parent when both lack one), and it has made no connection, edge or provider
\* link and queued no job.
C12_NodeNotFound ==
    ( /\ PastResolve
      /\ (ComponentForNode(req.parent) = NONE \/ ComponentForNode(req.child) = NONE) )
    => /\ req.pc = "failed"
       /\ req.t.status = "NodeNotFound"
       /\ req.t.node = IF ComponentForNode(req.parent) = NONE THEN req.parent ELSE req.child
       /\ SocketsConns = <<>> /\ SocketsEdges = <<>>
       /\ req.t.links = <<>> /\ req.t.jobs = <<>>

\* The function was called for a configuration frame whose output X has an
\* equally named input on the children's variant, and a child node without a
\* component: it failed naming the child.
C12_Witness ==
    /\ req.pc = "failed"
    /\ req.entry = "direct"
    /\ req.t.status = "NodeNotFound"
    /\ req.t.node = "Z" /\ req.child = "Z"
    /\ parentType = "ConfigurationFrame"
    /\ Written(req.t) = 0
    /\ \E n \in DOMAIN parentSockets, m \in DOMAIN childSockets :
           /\ parentSockets[n].kind = "Provider" /\ childSockets[m].kind = "Provider"
           /\ parentSockets[n].external_provider = "X"
           /\ childSockets[m].internal_provider = "X"

\* C11: a caller's lookup that finds no attribute value ends in the typed
\* not-found-for-context error, in the migrations and in the frame wiring,
\* and no propagation job is queued for a value that was not found.
C11_LookupsFailClosed ==
    /\ schemas.ended.call = "find_for_context"
           => schemas.status = "AttributeValueNotFoundForContext"
    /\ req.t.status \in {"Ok", "NodeNotFound", "InvalidComponentTypeForFrame",
                          "FrameSocketNotFound", "InternalProviderNotFoundForSocket",
                          "ExternalProviderNotFoundForSocket",
                          "AttributeValueNotFoundForContext"}
    /\ \A k \in DOMAIN req.t.jobs :
           \A x \in DOMAIN req.t.jobs[k].roots : req.t.jobs[k].roots[x] \in DOMAIN values

\* C18: every value linked to a prototype has exactly the prototype's context.
C18_PrototypeContextMatches ==
    \A l \in links.prototype : prototypes[l[2]].context = values[l[1]].context

\* C19: a value is the parent of another only if its prop is an Array, a Map
\* or an Object; linking under any other parent fails with ParentNotAllowed.
C19_ParentNotAllowed ==
    /\ \A l \in links.parent :
           PropKindOf(values[l[2]].context.prop_id) \in {"Array", "Map", "Object"}
    /\ ( /\ storeResult.op = "set_parent_attribute_value"
         /\ parent_attribute_value(links, storeResult.id) # NONE
         /\ PropKindOf(values[parent_attribute_value(links, storeResult.id)].context.prop_id)
                \notin {"Array", "Map", "Object"} )
        => storeResult.status = "ParentNotAllowed"

\* C14: no step of a frame wiring changes an attribute value: each keeps its
\* computed result; what the wiring leaves for the values downstream is jobs
\* whose roots are ids of attribute values.
C14_NoSynchronousRecompute ==
    [][ /\ DOMAIN values' = DOMAIN values
        /\ \A v \in DOMAIN values :
               values'[v].func_binding_return_value_id = values[v].func_binding_return_value_id
        /\ \A k \in DOMAIN req'.t.jobs :
               \A x \in DOMAIN req'.t.jobs[k].roots :
                   req'.t.jobs[k].roots[x] \in DOMAIN values ]_vars

\* A wiring was committed with a job for a value that has a computed result.
C14_Witness ==
    /\ req.pc = "idle"
    /\ \E k \in DOMAIN db.jobs :
           values[db.jobs[k].roots[1]].func_binding_return_value_id # NONE

\* The edge Connection::new makes for connection c: same endpoints, same kind.
C15_EdgeOf(c, e) ==
    /\ e.kind = c.kind /\ e.run = c.run
    /\ e.from_node = c.from_node /\ e.from_socket = c.from_socket
    /\ e.to_node = c.to_node /\ e.to_socket = c.to_socket

\* The edges of x (the committed state, or a transaction) without a connection.
C15_BareEdges(x) ==
    {k \in DOMAIN x.edges : ~\E j \in DOMAIN x.conns : C15_EdgeOf(x.conns[j], x.edges[k])}

\* C15 as claimed: every committed connection has its edge and every
\* committed edge its connection.
C15_AlwaysTogether ==
    /\ \A j \in DOMAIN db.conns : \E k \in DOMAIN db.edges : C15_EdgeOf(db.conns[j], db.edges[k])
    /\ C15_BareEdges(db) = {}

\* pending: the provider links of x whose edge is the call awaited next.
C15_TogetherButAggregation(x, pending) ==
    /\ \A j \in DOMAIN x.conns : \E k \in DOMAIN x.edges : C15_EdgeOf(x.conns[j], x.edges[k])
    /\ \A k \in C15_BareEdges(x) :
           /\ parentType = "AggregationFrame"
           /\ x.edges[k].kind = "Configuration" /\ x.edges[k].by = "sockets"
           /\ \E l \in DOMAIN x.links :
                  /\ x.links[l].run = x.edges[k].run
                  /\ x.links[l].provider = x.edges[k].from_socket[2]
    /\ Cardinality(C15_BareEdges(x)) + pending = Len(x.links)
    /\ parentType # "AggregationFrame" => Len(x.edges) = Len(x.conns)

\* C15 as amended: every connection has its edge; the Symbolic edge and the
\* edges of the configuration mode have their connection; the Configuration
\* edges of the aggregation mode are made without one, each with a provider
\* link.  This holds of the committed state and of the transaction in flight,
\* where the link made last is without its edge only while Edge::new is the
\* call awaited next.
C15_TogetherExceptAggregation ==
    /\ C15_TogetherButAggregation(db, 0)
    /\ C15_TogetherButAggregation(req.t, IF req.line \in {136, 181} THEN 1 ELSE 0)

\* Committed: an aggregation frame's edge without a connection beside the
\* Symbolic connection and its edge.
C15_Witness ==
    /\ C15_BareEdges(db) # {}
    /\ \E j \in DOMAIN db.conns : db.conns[j].kind = "Symbolic"

\* C16: no socket of arity One has more than one committed connection
\* terminating on it at a node.
C16_ArityOne ==
    \A node \in Nodes :
        ComponentForNode(node) # NONE =>
            LET sockets == ListForComponent(ComponentForNode(node))
            IN  \A n \in DOMAIN sockets :
                    sockets[n].arity = "One" =>
                        Cardinality({k \in DOMAIN db.conns :
                                        /\ db.conns[k].to_node = node
                                        /\ db.conns[k].to_socket = sockets[n].id}) <= 1

\* C17: the committed runs of connect_component_sockets_to_frame have made no
\* two connections, and no two edges, for the same socket pair of the same
\* nodes.
C17_Idempotent ==
    /\ \A j, k \in DOMAIN db.conns :
           ( /\ j # k
             /\ db.conns[j].by = "sockets" /\ db.conns[k].by = "sockets"
             /\ db.conns[j].from_node = db.conns[k].from_node
             /\ db.conns[j].to_node = db.conns[k].to_node )
           => <<db.conns[j].from_socket, db.conns[j].to_socket>>
                  # <<db.conns[k].from_socket, db.conns[k].to_socket>>
    /\ \A j, k \in DOMAIN db.edges :
           ( /\ j # k
             /\ db.edges[j].by = "sockets" /\ db.edges[k].by = "sockets"
             /\ db.edges[j].from_node = db.edges[k].from_node
             /\ db.edges[j].to_node = db.edges[k].to_node )
           => <<db.edges[j].from_socket, db.edges[j].to_socket>>
                  # <<db.edges[k].from_socket, db.edges[k].to_socket>>

\* The rows of run q among rows.
C20_Of(rows, q) == {k \in DOMAIN rows : rows[k].run = q}

C20_ViewIsConsistent(r) ==
    LET view == Visible(r)
        count(q) == Cardinality(C20_Of(view.conns, q)) + Cardinality(C20_Of(view.edges, q))
                    + Cardinality(C20_Of(view.links, q)) + Cardinality(C20_Of(view.jobs, q))
    IN  \A q \in DOMAIN log :
            /\ q = r.run => count(q) = Written(r.t)
            /\ (q # r.run /\ ~log[q].committed) => count(q) = 0
            /\ (q # r.run /\ log[q].committed) => count(q) = log[q].written

\* C20: with two requests in flight, what the reads of each range over holds
\* all the request wrote so far, nothing of a request that has not committed,
\* and all that a committed request wrote: never a part of a wiring.
C20_Isolated ==
    /\ req.pc # "idle" => C20_ViewIsConsistent(req)
    /\ other.pc # "idle" => C20_ViewIsConsistent(other)

\* Two requests are in flight, each with the Symbolic connection and a socket
\* wired in its own transaction, and nothing is committed.
C20_Witness ==
    /\ req.pc = "commit" /\ other.pc \in {"loop", "event", "commit"}
    /\ Written(req.t) >= 5 /\ Written(other.t) >= 5
    /\ db = EmptyDb

\* ---- aggregation frames, socket by socket ----

\* The sockets of the parent the loop of the run in flight has taken so far,
\* and whether the run failed at socket n.
C21_Taken(n) == n < req.i
C21_FailedAt(n) == req.pc = "failed" /\ n = req.i - 1

\* The rows of the run in flight for the parent's socket n.
C21_EdgesOn(socket) ==
    {k \in DOMAIN SocketsEdges :
        SocketsEdges[k].from_socket = socket.id /\ SocketsEdges[k].to_socket = socket.id}

C21_LinksOf(fn, provider) ==
    {k \in DOMAIN req.t.links :
        req.t.links[k].fn = fn /\ req.t.links[k].provider = provider.id}

C21_JobsOf(root) == {k \in DOMAIN req.t.jobs : req.t.jobs[k].roots = <<root>>}

\* The committed requests and the child each of them wired.
C21_CommittedRuns == {r \in DOMAIN log : log[r].committed}

C21_ChildOf(r) ==
    {db.conns[k].from_node : k \in {j \in DOMAIN db.conns :
                                       db.conns[j].run = r /\ db.conns[j].kind = "Symbolic"}}

\* C21: on an aggregation frame, each wiring call, for every ConfigurationInput
\* provider socket of the parent it has taken: fails there with
\* InternalProviderNotFoundForSocket when the socket has no explicit internal
\* provider, having made no edge for it; otherwise it has linked that provider
\* from the child to the parent once, made exactly one Configuration edge from
\* the child node to the parent node on this parent socket, and queued exactly
\* one job whose only root is the value found by {component = parent,
\* internal_provider = the provider}.  In the committed state every such socket
\* has one such edge for each committed request, from that request's child.
C21_AggregationInputFanIn ==
    ( /\ PastResolve
      /\ ComponentForNode(req.parent) # NONE /\ ComponentForNode(req.child) # NONE
      /\ GetType(ComponentForNode(req.parent)) = "AggregationFrame" )
    => LET ps == ListForComponent(ComponentForNode(req.parent))
           parent == ComponentForNode(req.parent)
           child == ComponentForNode(req.child)
       IN  /\ \A n \in DOMAIN ps :
                 ( /\ ps[n].kind # "Frame" /\ ps[n].edge_kind = "ConfigurationInput"
                   /\ C21_Taken(n) )
                 => LET provider == ps[n].internal_provider
                        fn == "connect_internal_providers_for_components"
                        root == find_for_context(values, ReadContext(parent, provider.id, NONE))
                    IN  IF provider = NoProvider
                        THEN /\ C21_FailedAt(n)
                             /\ req.t.status = "InternalProviderNotFoundForSocket"
                             /\ C21_EdgesOn(ps[n]) = {}
                        ELSE /\ Cardinality(C21_EdgesOn(ps[n])) = 1
                             /\ \A k \in C21_EdgesOn(ps[n]) :
                                    /\ SocketsEdges[k].kind = "Configuration"
                                    /\ SocketsEdges[k].from_node = req.child
                                    /\ SocketsEdges[k].to_node = req.parent
                             /\ Cardinality(C21_LinksOf(fn, provider)) = 1
                             /\ \A k \in C21_LinksOf(fn, provider) :
                                    /\ req.t.links[k].first = child
                                    /\ req.t.links[k].second = parent
                             /\ IF C21_FailedAt(n)
                                THEN /\ root = NONE
                                     /\ req.t.status = "AttributeValueNotFoundForContext"
                                ELSE /\ root # NONE
                                     /\ root \in DOMAIN values
                                     /\ values[root].context.internal_provider_id = provider.id
                                     /\ Cardinality(C21_JobsOf(root)) = 1
           /\ \A n \in DOMAIN ps, r \in C21_CommittedRuns :
                 ( /\ ps[n].kind # "Frame" /\ ps[n].edge_kind = "ConfigurationInput" )
                 => /\ ps[n].internal_provider # NoProvider
                    /\ Cardinality({k \in DOMAIN db.edges :
                                        /\ db.edges[k].run = r
                                        /\ db.edges[k].kind = "Configuration"
                                        /\ db.edges[k].to_socket = ps[n].id
                                        /\ db.edges[k].to_node = req.parent
                                        /\ db.edges[k].from_node \in C21_ChildOf(r)}) = 1

\* A and B were wired into an aggregation frame with an input socket, one
\* request after the other: the second is about to commit and the first has
\* left its edge from A into the parent on that socket.
C21_Witness ==
    /\ req.pc = "commit" /\ req.child = "B"
    /\ parentType = "AggregationFrame"
    /\ \E n \in DOMAIN parentSockets :
           /\ parentSockets[n].kind = "Provider"
           /\ parentSockets[n].internal_provider = "X"
           /\ \E k \in DOMAIN db.edges :
                  /\ db.edges[k].from_node = "A" /\ db.edges[k].to_node = "P"
                  /\ db.edges[k].to_socket = <<"parent", n + Len(FrameSockets)>>
           /\ \E k \in DOMAIN SocketsEdges :
                  /\ SocketsEdges[k].from_node = "B" /\ SocketsEdges[k].to_node = "P"
                  /\ SocketsEdges[k].to_socket = <<"parent", n + Len(FrameSockets)>>

\* The rows of the run in flight for one output socket of the parent.
C22_EdgesOn(socket) ==
    {k \in DOMAIN SocketsEdges :
        SocketsEdges[k].from_socket = socket.id /\ SocketsEdges[k].to_socket = socket.id}

C22_LinksOf(provider) ==
    {k \in DOMAIN req.t.links :
        /\ req.t.links[k].fn = "connect_external_providers_for_components"
        /\ req.t.links[k].provider = provider.id}

\* C22: on an aggregation frame, each wiring call, for every
\* ConfigurationOutput provider socket of the parent it has taken: fails there
\* with ExternalProviderNotFoundForSocket when the socket has no external
\* provider, having made no edge for it; otherwise it has linked that provider
\* from the parent to the child once, made exactly one Configuration edge from
\* the parent node to the child node on this socket, and queued exactly one
\* job whose only root is the value found by {component = child,
\* external_provider = the provider}.  In the committed state every such
\* socket has one such edge for each committed request, to that request's child.
C22_AggregationOutputFanOut ==
    ( /\ PastResolve
      /\ ComponentForNode(req.parent) # NONE /\ ComponentForNode(req.child) # NONE
      /\ GetType(ComponentForNode(req.parent)) = "AggregationFrame" )
    => LET ps == ListForComponent(ComponentForNode(req.parent))
           parent == ComponentForNode(req.parent)
           child == ComponentForNode(req.child)
       IN  /\ \A n \in DOMAIN ps :
                 ( /\ ps[n].kind # "Frame" /\ ps[n].edge_kind = "ConfigurationOutput"
                   /\ n < req.i )
                 => LET provider == ps[n].external_provider
                        failed_here == req.pc = "failed" /\ n = req.i - 1
                        root == find_for_context(values, ReadContext(child, NONE, provider.id))
                    IN  IF provider = NoProvider
                        THEN /\ failed_here
                             /\ req.t.status = "ExternalProviderNotFoundForSocket"
                             /\ C22_EdgesOn(ps[n]) = {}
                        ELSE /\ Cardinality(C22_EdgesOn(ps[n])) = 1
                             /\ \A k \in C22_EdgesOn(ps[n]) :
                                    /\ SocketsEdges[k].kind = "Configuration"
                                    /\ SocketsEdges[k].from_node = req.parent
                                    /\ SocketsEdges[k].to_node = req.child
                             /\ Cardinality(C22_LinksOf(provider)) = 1
                             /\ \A k \in C22_LinksOf(provider) :
                                    /\ req.t.links[k].first = parent
                                    /\ req.t.links[k].second = child
                             /\ IF failed_here
                                THEN /\ root = NONE
                                     /\ req.t.status = "AttributeValueNotFoundForContext"
                                ELSE /\ root # NONE
                                     /\ root \in DOMAIN values
                                     /\ values[root].context.external_provider_id = provider.id
                                     /\ \A k \in DOMAIN req.t.jobs :
                                            Len(req.t.jobs[k].roots) = 1
                                     /\ Cardinality({k \in DOMAIN req.t.jobs :
                                            req.t.jobs[k].roots[1] = root}) = 1
           /\ \A n \in DOMAIN ps, r \in {q \in DOMAIN log : log[q].committed} :
                 ( /\ ps[n].kind # "Frame" /\ ps[n].edge_kind = "ConfigurationOutput" )
                 => /\ ps[n].external_provider # NoProvider
                    /\ Cardinality({k \in DOMAIN db.edges :
                                        /\ db.edges[k].run = r
                                        /\ db.edges[k].kind = "Configuration"
                                        /\ db.edges[k].from_socket = ps[n].id
                                        /\ db.edges[k].from_node = req.parent
                                        /\ \E j \in DOMAIN db.conns :
                                               /\ db.conns[j].run = r
                                               /\ db.conns[j].kind = "Symbolic"
                                               /\ db.conns[j].from_node
                                                      = db.edges[k].to_node}) = 1

\* A and B were wired into an aggregation frame with an output socket whose
\* provider has a value of the parent component's own: the second request is
\* about to commit, the first has left its edge from the parent to A.
C22_Witness ==
    /\ req.pc = "commit" /\ req.child = "B"
    /\ parentType = "AggregationFrame"
    /\ \E n \in DOMAIN parentSockets :
           /\ parentSockets[n].kind = "Provider"
           /\ parentSockets[n].external_provider = "X"
           /\ \E v \in DOMAIN values :
                  /\ values[v].context.external_provider_id = n + Len(FrameSockets)
                  /\ values[v].context.component_id = 1
           /\ \E k \in DOMAIN db.edges :
                  /\ db.edges[k].from_node = "P" /\ db.edges[k].to_node = "A"
                  /\ db.edges[k].from_socket = <<"parent", n + Len(FrameSockets)>>
           /\ \E k \in DOMAIN SocketsEdges :
                  /\ SocketsEdges[k].from_node = "P" /\ SocketsEdges[k].to_node = "B"
                  /\ SocketsEdges[k].from_socket = <<"parent", n + Len(FrameSockets)>>

\* ---- configuration frames: the job of a connection ----

\* The read context of lines 221-226 for the parent's output provider.
C23_ParentContext(provider_id) ==
    [prop_id |-> NONE, internal_provider_id |-> NONE,
     external_provider_id |-> provider_id,
     schema_id |-> ANY, schema_variant_id |-> ANY,
     component_id |-> ComponentForNode(req.parent)]

\* The run in flight made a connection and then found no value to enqueue.
C23_FailedAfterConnection ==
    req.pc = "failed" /\ req.t.status = "AttributeValueNotFoundForContext"

\* The run in flight made a connection and has not yet enqueued its job.
C23_JobPending == req.pc = "loop" /\ req.line \in {230, 239}

\* C23: in the ConfigurationFrame mode every connection the run creates goes
\* from the parent node and socket to the child node and socket with kind
\* Configuration, and is followed by one job whose single root is the value
\* found by {prop NONE, internal provider NONE, external provider = the parent
\* provider, component = parent}: the k-th job belongs to the k-th connection,
\* there is no job without a connection, and the last connection is without
\* its job only between Connection::new and enqueue_job, or in a run that
\* fails for want of that value (and so commits nothing).
C23_JobPerConnection ==
    ( /\ PastResolve
      /\ ComponentForNode(req.parent) # NONE /\ ComponentForNode(req.child) # NONE
      /\ GetType(ComponentForNode(req.parent)) = "ConfigurationFrame" )
    => /\ Len(req.t.jobs) = Len(SocketsConns)
                                - (IF C23_FailedAfterConnection \/ C23_JobPending THEN 1 ELSE 0)
       /\ \A k \in DOMAIN SocketsConns :
              /\ SocketsConns[k].kind = "Configuration"
              /\ SocketsConns[k].from_node = req.parent
              /\ SocketsConns[k].to_node = req.child
              /\ SocketsConns[k].from_socket[1] = "parent"
              /\ SocketsConns[k].to_socket[1] = "child"
       /\ \A k \in DOMAIN req.t.jobs :
              LET root == find_for_context(values,
                                           C23_ParentContext(SocketsConns[k].from_socket[2]))
              IN  /\ root # NONE
                  /\ req.t.jobs[k].roots = <<root>>
       /\ C23_FailedAfterConnection =>
              find_for_context(values,
                  C23_ParentContext(SocketsConns[Len(SocketsConns)].from_socket[2])) = NONE
       /\ req.line = 239 =>
              req.attribute_value
                  = find_for_context(values,
                        C23_ParentContext(SocketsConns[Len(SocketsConns)].from_socket[2]))
       /\ \A r \in DOMAIN log : log[r].committed =>
              Cardinality({k \in DOMAIN db.jobs : db.jobs[k].run = r})
                  = Cardinality({k \in DOMAIN db.conns :
                                    db.conns[k].run = r /\ db.conns[k].by = "sockets"})

\* Parent outputs X and Y, child input X only, and both of the parent's
\* providers have a value of the component's own: the run ended with one
\* connection and one job, whose root is the component's value for X.
C23_Witness ==
    /\ req.pc = "event"
    /\ parentType = "ConfigurationFrame"
    /\ Len(SocketsConns) = 1 /\ Len(req.t.jobs) = 1
    /\ values[req.t.jobs[1].roots[1]].context.component_id = 1
    /\ \E n \in DOMAIN parentSockets :
           parentSockets[n].kind = "Provider" /\ parentSockets[n].external_provider = "Y"
    /\ \A m \in DOMAIN childSockets : childSockets[m].internal_provider # "Y"

\* ---- Frame sockets ----

\* The kind of the socket with this id.
C24_KindOf(socket_id) ==
    LET sockets == ListForComponent(IF socket_id[1] = "parent" THEN 1 ELSE 2)
    IN  sockets[socket_id[2]].kind

\* The parent's Provider sockets that can make a run fail: in an aggregation
\* frame each of them, in a configuration frame those with an output provider
\* that some Provider socket of the child matches by name.
C24_MayFail(ps, cs, n) ==
    /\ ps[n].kind # "Frame"
    /\ ~req.aggregation_frame =>
           /\ ps[n].external_provider # NoProvider
           /\ \E m \in DOMAIN cs :
                  /\ cs[m].kind # "Frame"
                  /\ cs[m].internal_provider # NoProvider
                  /\ cs[m].internal_provider.name = ps[n].external_provider.name

\* C24: no connection or edge the sockets function makes, in the transaction
\* in flight or committed, has a Frame-kind socket at either end, on the
\* parent's side or the child's, and no provider link or job is made for a
\* Frame socket of the parent; a run fails in the loop only at a Provider
\* socket (with a matching Provider socket of the child, in a configuration
\* frame): Frame sockets and pairs that do not match are passed over.
C24_FrameSocketsAreSkipped ==
    /\ \A k \in DOMAIN SocketsConns :
           /\ C24_KindOf(SocketsConns[k].from_socket) # "Frame"
           /\ C24_KindOf(SocketsConns[k].to_socket) # "Frame"
    /\ \A k \in DOMAIN SocketsEdges :
           /\ C24_KindOf(SocketsEdges[k].from_socket) # "Frame"
           /\ C24_KindOf(SocketsEdges[k].to_socket) # "Frame"
    /\ \A k \in DOMAIN db.conns : db.conns[k].by = "sockets" =>
           /\ C24_KindOf(db.conns[k].from_socket) # "Frame"
           /\ C24_KindOf(db.conns[k].to_socket) # "Frame"
    /\ \A k \in DOMAIN db.edges : db.edges[k].by = "sockets" =>
           /\ C24_KindOf(db.edges[k].from_socket) # "Frame"
           /\ C24_KindOf(db.edges[k].to_socket) # "Frame"
    /\ \A k \in DOMAIN req.t.links :
           ListForComponent(1)[req.t.links[k].provider].kind # "Frame"
    /\ \A k \in DOMAIN req.t.jobs : \A x \in DOMAIN req.t.jobs[k].roots :
           LET c == values[req.t.jobs[k].roots[x]].context
               provider == IF c.internal_provider_id # NONE THEN c.internal_provider_id
                           ELSE c.external_provider_id
           IN  ListForComponent(1)[provider].kind # "Frame"
    /\ ( /\ req.pc = "failed"
         /\ req.t.status \notin {"FrameSocketNotFound", "NodeNotFound",
                                  "InvalidComponentTypeForFrame"} )
       => /\ req.i - 1 \in DOMAIN ListForComponent(1)
          /\ C24_MayFail(ListForComponent(1), ListForComponent(2), req.i - 1)

\* A configuration frame whose only further socket is a Frame-kind output
\* with provider X, and a child with a Frame-kind input of the same provider
\* name: the loop is over, nothing but the Symbolic connection was written.
C24_ConfigurationWitness ==
    /\ req.pc = "event"
    /\ parentType = "ConfigurationFrame"
    /\ Len(parentSockets) = 1 /\ parentSockets[1].kind = "Frame"
    /\ parentSockets[1].external_provider = "X"
    /\ \E m \in DOMAIN childSockets :
           childSockets[m].kind = "Frame" /\ childSockets[m].internal_provider = "X"
    /\ SocketsConns = <<>> /\ SocketsEdges = <<>>
    /\ req.t.jobs = <<>>

\* The same on an aggregation frame, which has also a Provider input socket:
\* the run ended with the one edge of that socket.
C24_Witness ==
    /\ req.pc = "event"
    /\ parentType = "AggregationFrame"
    /\ \E n \in DOMAIN parentSockets :
           parentSockets[n].kind = "Frame" /\ parentSockets[n].external_provider = "X"
    /\ \E n \in DOMAIN parentSockets :
           parentSockets[n].kind = "Provider" /\ parentSockets[n].internal_provider = "X"
    /\ Len(SocketsEdges) = 1 /\ Len(req.t.links) = 1 /\ Len(req.t.jobs) = 1

\* ---- the order of the handler's steps ----

\* The frame socket of one edge kind on a node.
C25_FrameSocket(node, edge_kind) ==
    LET found == FindFrameSocketForNode(node, edge_kind)
    IN  IF found = {} THEN <<>> ELSE (CHOOSE f \in found : TRUE).id

\* The Symbolic connection of the request in flight.
C25_Symbolic ==
    [run |-> Run, by |-> "handler",
     from_node |-> req.child,
     from_socket |-> C25_FrameSocket(req.child, "ConfigurationOutput"),
     to_node |-> req.parent,
     to_socket |-> C25_FrameSocket(req.parent, "ConfigurationInput"),
     kind |-> "Symbolic"]

\* Where the handler stands fixes what it has done: before the Symbolic
\* connection nothing is written; from then on that connection is the first
\* row of the transaction; the sockets function writes after it; the event is
\* registered only once every parent socket was taken without an error; and
\* nothing of the request is committed or published before its commit.
C25_StateOrder ==
    req.entry = "handler" =>
        /\ req.pc = "symbolic" => req.t = NoWrites
        /\ req.pc \in {"resolve", "loop", "event", "commit"} =>
               /\ req.t.conns # <<>>
               /\ req.t.conns[1] = C25_Symbolic
               /\ req.connection = C25_Symbolic
               /\ req.t.status = "Ok"
        /\ req.pc \in {"symbolic", "resolve"} =>
               /\ SocketsConns = <<>> /\ SocketsEdges = <<>>
               /\ req.t.links = <<>> /\ req.t.jobs = <<>>
        /\ req.pc \in {"symbolic", "resolve", "loop", "event", "failed"} => req.t.events = 0
        /\ req.pc \in {"event", "commit"} =>
               req.i > Len(ListForComponent(ComponentForNode(req.parent)))
        /\ req.pc = "commit" => req.t.events = 1
        /\ req.pc # "idle" =>
               /\ \A k \in DOMAIN db.conns : db.conns[k].run # Run
               /\ \A k \in DOMAIN db.edges : db.edges[k].run # Run
               /\ \A k \in DOMAIN db.links : db.links[k].run # Run
               /\ \A k \in DOMAIN db.jobs : db.jobs[k].run # Run
               /\ db.events = Cardinality({r \in DOMAIN log : log[r].committed})

\* The committed state and the published events change in one step only: the
\* commit of a handler whose wiring is complete and whose event is
\* registered; it is the handler's last step and its response is the
\* Symbolic connection made first.
C25_StepOrder ==
    (db' # db \/ (\E r \in DOMAIN log : log'[r].response # NoConnection
                                         /\ log[r].response = NoConnection))
    => /\ req.pc = "commit" /\ req.entry = "handler"
       /\ req.t.status = "Ok" /\ req.t.events = 1
       /\ req.i > Len(ListForComponent(ComponentForNode(req.parent)))
       /\ req' = Idle
       /\ db'.events = db.events + 1
       /\ Len(db'.conns) = Len(db.conns) + Len(req.t.conns)
       /\ db'.conns[Len(db.conns) + 1] = C25_Symbolic
       /\ log'[Run].status = "Ok" /\ log'[Run].committed
       /\ log'[Run].response = C25_Symbolic

\* C25: in connect_component_to_frame the Symbolic connection from the child's
\* ConfigurationOutput frame socket to the parent's ConfigurationInput frame
\* socket is made first, the socket wiring follows, the event is registered
\* after the wiring, and the commit is the last step: the event is published
\* by the commit alone, the commit happens only after all the wiring succeeded,
\* and the successful response carries that Symbolic connection.
C25_HandlerOrder == [](C25_StateOrder) /\ [][C25_StepOrder]_vars

\* A handler that wired a socket of the parent is about to commit.
C25_Witness ==
    /\ req.pc = "commit" /\ req.entry = "handler"
    /\ Len(req.t.conns) >= 2 /\ Len(req.t.jobs) >= 1
    /\ req.t.events = 1 /\ db.events = 0

\* ---- insert_for_context ----

\* How often a key is in an order.
C26_Count(order, key) == Cardinality({i \in DOMAIN order : order[i] = key})

\* C26: after an insert_for_context that succeeded, the child exists at the
\* item context with its key and belongs to the parent, and the parent's stored
\* index_map holds that key exactly once, as its last entry; no index_map ever
\* holds a key twice, also after a key the map held already was inserted
\* again or the key of a child was set anew; an insert that is refused adds no
\* value.
C26_KeyOnceAndLast ==
    /\ ( storeResult.op = "insert_for_context" /\ storeResult.status = "Ok" )
       => LET child == storeResult.id
              parent == parent_attribute_value(links, child)
          IN  /\ child \in DOMAIN values
              /\ values[child].context = storeResult.context
              /\ values[child].key \in Keys
              /\ parent \in DOMAIN values
              /\ values[parent].index_map.some
              /\ LET order == values[parent].index_map.order
                 IN  /\ order # <<>>
                     /\ order[Len(order)] = values[child].key
                     /\ C26_Count(order, values[child].key) = 1
    /\ \A v \in DOMAIN values, key \in Keys :
           C26_Count(values[v].index_map.order, key) <= 1
    /\ Len(values) = Len(MapRows)
                     + Cardinality({k \in DOMAIN created : created[k].id # NONE})

\* A key was inserted under a map, then another, then the first again for a
\* component: the map has three children and two keys, the first key last.
C26_Witness ==
    /\ storeResult.op = "insert_for_context" /\ storeResult.status = "Ok"
    /\ storeResult.context.component_id = 1
    /\ \E v \in DOMAIN values :
           /\ Len(values[v].index_map.order) = 2
           /\ values[v].index_map.order[2] = values[storeResult.id].key
           /\ Cardinality({c \in DOMAIN values : parent_attribute_value(links, c) = v}) = 3

\* ---- every value has a prototype ----

\* The prototypes a value is linked to.
C27_PrototypesOf(v) == {l[2] : l \in {x \in links.prototype : x[1] = v}}

\* C27: every attribute value there is belongs to exactly one attribute
\* prototype, and no value a migration got from find_for_context is without
\* its prototype (the lookup of the prototype never yields none).
C27_EveryValueHasAPrototype ==
    /\ \A v \in DOMAIN values :
           /\ Cardinality(C27_PrototypesOf(v)) = 1
           /\ C27_PrototypesOf(v) \subseteq DOMAIN prototypes
    /\ schemas.status \notin {"MissingAttributePrototype",
                              "MissingAttributePrototypeForAttributeValue"}

\* ---- the roots of a wiring and the links it created ----

\* Where the value at one end of a link is: the component it is seen at, the
\* variant whose provider it is of, and the provider.  For a connection or an
\* edge, the provider is the one the socket of that end backs.
C13_EndOf(node, socket_id) ==
    LET socket == ListForComponent(IF socket_id[1] = "parent" THEN 1 ELSE 2)[socket_id[2]]
    IN  [component |-> ComponentForNode(node), variant |-> socket_id[1],
         internal_provider_id |-> socket.internal_provider.id,
         external_provider_id |-> socket.external_provider.id]

\* For a provider link, the provider is the one of the parent that was
\* connected, seen at the component of that end.
C13_EndAt(component, l) ==
    [component |-> component, variant |-> "parent",
     internal_provider_id |->
         IF l.fn = "connect_internal_providers_for_components" THEN l.provider ELSE NONE,
     external_provider_id |->
         IF l.fn = "connect_external_providers_for_components" THEN l.provider ELSE NONE]

\* The committed links that carry a value, each from its tail to its head:
\* a provider link from the component given first to the one given second
\* (the child feeds the parent's internal provider, the parent's external
\* provider feeds the child), a connection and an edge from their from-end to
\* their to-end.  A link between sockets that back no provider carries none.
C13_Flows ==
    {f \in {[run |-> db.links[k].run,
             tail |-> C13_EndAt(db.links[k].first, db.links[k]),
             head |-> C13_EndAt(db.links[k].second, db.links[k])] : k \in DOMAIN db.links}
           \cup {[run |-> db.conns[k].run,
                  tail |-> C13_EndOf(db.conns[k].from_node, db.conns[k].from_socket),
                  head |-> C13_EndOf(db.conns[k].to_node, db.conns[k].to_socket)] :
                     k \in DOMAIN db.conns}
           \cup {[run |-> db.edges[k].run,
                  tail |-> C13_EndOf(db.edges[k].from_node, db.edges[k].from_socket),
                  head |-> C13_EndOf(db.edges[k].to_node, db.edges[k].to_socket)] :
                     k \in DOMAIN db.edges} :
        f.head.internal_provider_id # NONE \/ f.head.external_provider_id # NONE}

\* The attribute value the store has for an end: the most specific one for that
\* provider at that component (the children's own providers have no value in
\* this store).
C13_ValueAt(end) ==
    IF end.variant # "parent" THEN NONE
    ELSE find_for_context(values,
                          [prop_id |-> NONE,
                           internal_provider_id |-> end.internal_provider_id,
                           external_provider_id |-> end.external_provider_id,
                           schema_id |-> ANY, schema_variant_id |-> ANY,
                           component_id |-> end.component])

\* The ends a value flows from to reach one of `ends`, along the committed links.
RECURSIVE C13_Upstream(_)
C13_Upstream(ends) ==
    LET more == ends \cup {f.tail : f \in {g \in C13_Flows : g.head \in ends}}
    IN  IF more = ends THEN ends ELSE C13_Upstream(more)

\* The roots of the jobs a wiring enqueued.
C13_RootsOf(run) ==
    UNION {{db.jobs[j].roots[x] : x \in DOMAIN db.jobs[j].roots} :
              j \in {k \in DOMAIN db.jobs : db.jobs[k].run = run}}

\* C13: for every link carrying a value that a committed frame wiring created
\* (provider link, connection or edge), the value at the head of the link is
\* one of the roots that wiring enqueued, or is reached along the links from
\* the value of one of its roots.
C13_RootsCoverTheLinks ==
    \A f \in C13_Flows :
        \E end \in C13_Upstream({f.head}) :
            /\ C13_ValueAt(end) # NONE
            /\ C13_ValueAt(end) \in C13_RootsOf(f.run)

\* A wiring is committed with a provider link whose two ends have different
\* values in the store, and the root it enqueued is the value at the head.
C13_Witness ==
    \E k \in DOMAIN db.links :
        LET l == db.links[k]
            head == C13_ValueAt(C13_EndAt(l.second, l))
            tail == C13_ValueAt(C13_EndAt(l.first, l))
        IN  /\ log[l.run].committed
            /\ head # NONE /\ tail # NONE /\ head # tail
            /\ head \in C13_RootsOf(l.run)
            /\ tail \notin C13_RootsOf(l.run)

\* ---- the builtin migrations ----

\* The lookup the migrations make of a prop at the level of the schema variant n.
C28_Lookup(n, prop_id) ==
    find_for_context(values, SchemaPropReadContext(n, n, prop_id))

C28_Props(n) == {PropsOf(n)[i] : i \in DOMAIN PropsOf(n)}

\* The lookup finds a value of that prop in that schema.
C28_Found(n, prop_id) ==
    /\ C28_Lookup(n, prop_id) # NONE
    /\ values[C28_Lookup(n, prop_id)].context.prop_id = prop_id
    /\ values[C28_Lookup(n, prop_id)].context.schema_id = n

\* C28 as stated: once a schema variant is finalized, the lookup at {schema,
\* schema variant, prop} finds a value for every prop of the variant, and no
\* lookup of a migration ends with the not-found error.
C28_EveryPropIsFound ==
    /\ \A n \in DOMAIN SchemaNames :
           schemas.rows[n].finalized =>
               \A prop_id \in C28_Props(n) : C28_Found(n, prop_id)
    /\ schemas.status \notin {"AttributeValueNotFoundForContext", "Missing"}
    /\ schemas.ended.call # "find_for_context"

\* C28: once a schema variant is finalized, the lookup at {schema, schema
\* variant, prop} finds a value for every prop of the variant but the prop of
\* the elements of a map, whether the scaffolding put the value at the variant
\* or at the schema; the prop of the elements has its value from the insertion
\* of an element on; the migrations look up, after finalize only, props that
\* are not the prop of the elements, and no migration ends with the error of
\* a lookup that found nothing.
C28_FinalizedPropsAreFound ==
    /\ \A n \in DOMAIN SchemaNames :
           schemas.rows[n].finalized =>
               \A prop_id \in C28_Props(n) : ~IsElement(prop_id) => C28_Found(n, prop_id)
    /\ \A n \in DOMAIN SchemaNames :
           schemas.rows[n].bound =>
               \A prop_id \in C28_Props(n) : C28_Found(n, prop_id)
    /\ schemas.status \notin {"AttributeValueNotFoundForContext", "Missing"}
    /\ schemas.ended.call # "find_for_context"
    /\ At("find_for_context") =>
           schemas.rows[schemas.fn].finalized /\ ~IsElement(Instr.arg)

\* migrate ended Ok: the region of a schema, scaffolded at the level of the
\* schema alone, was found by the lookup at the variant and bound, and the
\* tag of the tags map has the value its insertion made.
C28_Witness ==
    /\ schemas.runs > 0 /\ schemas.fn = 0 /\ schemas.status = "Ok"
    /\ \E id \in DOMAIN values :
           /\ values[id].context.prop_id = region_prop
           /\ values[id].context.schema_variant_id = NONE
           /\ prototypes[attribute_prototype(links, id)].func_id = identity_func_id
    /\ \A n \in DOMAIN SchemaNames : C28_Found(n, tags_map_item_prop)

\* The value of a prop in schema n (NONE while there is none).
C29_ValueOfProp(n, prop_id) ==
    IF \E id \in DOMAIN values :
           values[id].context.prop_id = prop_id /\ values[id].context.schema_id = n
    THEN CHOOSE id \in DOMAIN values :
             values[id].context.prop_id = prop_id /\ values[id].context.schema_id = n
    ELSE NONE

\* The props the function of schema n sets to the identity of a provider
\* (vpc.rs:328-423, 721-816, 1047-1083 and 1116-1172).
C29_Wirings(n) ==
    IF n = 3
    THEN {<<region_prop, region_explicit_internal_provider>>,
          <<group_name_prop, si_name_internal_provider>>,
          <<tags_map_item_prop, si_name_internal_provider>>}
    ELSE {<<region_prop, region_explicit_internal_provider>>,
          <<group_id_prop, group_id_internal_provider>>,
          <<tags_map_item_prop, si_name_internal_provider>>}

\* Every prop a function that ran to its end was to wire has a value whose
\* prototype is the identity function with its argument bound to the provider.
C29_Wired ==
    \A n \in DOMAIN SchemaNames :
        schemas.rows[n].bound =>
            \A w \in C29_Wirings(n) :
                /\ C29_ValueOfProp(n, w[1]) # NONE
                /\ attribute_prototype(links, C29_ValueOfProp(n, w[1])) # NONE
                /\ prototypes[attribute_prototype(links, C29_ValueOfProp(n, w[1]))].func_id
                       = identity_func_id
                /\ <<attribute_prototype(links, C29_ValueOfProp(n, w[1])), w[2]>>
                       \in schemas.args

\* The executor takes the oldest job.
C29_JobRuns == schemas.queue # <<>> /\ schemas'.ran = schemas.ran + 1

\* When the job of a root has run, the root has the result it had, and every
\* prop a finished migration set to the identity of the root's provider has
\* that result.
C29_InSyncAfterJob ==
    C29_JobRuns =>
        LET root == Head(schemas.queue)[1]
            n == values[root].context.schema_id
        IN  /\ values'[root].func_binding_return_value_id
                   = values[root].func_binding_return_value_id
            /\ schemas.rows[n].bound =>
                   \A w \in C29_Wirings(n) :
                       values[root].context = ProviderContext(n, w[2]) =>
                           values'[C29_ValueOfProp(n, w[1])].func_binding_return_value_id
                               = values'[root].func_binding_return_value_id

\* C29: every prop a migration wires has the identity function as its
\* prototype's function and the provider as its argument; with an executor
\* that takes every job it is given, every job enqueued with the value of a
\* provider as its root is run, however many are enqueued before it and
\* whatever changes meanwhile; and when it has run every prop wired to that
\* provider has the provider's current value.
C29_IdentityPropagates ==
    /\ []C29_Wired
    /\ [][C29_InSyncAfterJob]_vars
    /\ \A j \in 1..MaxJobs :
           (schemas.ran + Len(schemas.queue) >= j) ~> (schemas.ran >= j)

\* Two jobs were enqueued and run; the region's provider of a schema got a
\* result, was the root of one of them, and the region prop has that result.
C29_Witness ==
    /\ schemas.ran = 2 /\ schemas.queue = <<>>
    /\ \E n \in DOMAIN SchemaNames, root \in DOMAIN values :
           /\ schemas.rows[n].bound
           /\ values[root].context = ProviderContext(n, region_explicit_internal_provider)
           /\ values[root].func_binding_return_value_id \in 1..MaxReturnValues
           /\ values[C29_ValueOfProp(n, region_prop)].func_binding_return_value_id
                  = values[root].func_binding_return_value_id

\* A step of the migration in progress was taken.
C30_MigrationStep == schemas'.fn # schemas.fn \/ schemas'.pc # schemas.pc

C30_TablesUnchanged ==
    /\ values' = values /\ prototypes' = prototypes /\ links' = links
    /\ schemas'.rows = schemas.rows /\ schemas'.args = schemas.args

\* When the schema of the function in progress exists, its first call is its
\* last, it is a success and it writes nothing.
C30_ReturnsAtOnce ==
    ( /\ At("create_schema")
      /\ schemas.rows[schemas.fn].exists
      /\ C30_MigrationStep )
    => /\ C30_TablesUnchanged
       /\ schemas'.pc \in {0, 1}
       /\ schemas'.fn = 0 => schemas'.status = "Ok"
       /\ schemas'.fn # 0 => schemas'.fn = schemas.fn + 1

\* A schema is installed: it is there with its variant finalized and its
\* props bound.
C30_Installed(n) ==
    schemas.rows[n].exists /\ schemas.rows[n].finalized /\ schemas.rows[n].bound

\* A schema exists that the migrate in progress did not create.
C30_RunBefore ==
    \E n \in DOMAIN SchemaNames :
        schemas.rows[n].exists /\ n \notin schemas.transaction.schemas

\* C30: for a schema named Ingress, Egress or Security Group that exists
\* already, the function returns Ok at once and creates no variant, prop,
\* provider, prototype, argument or value; a migrate that returned Ok has
\* installed the three schemas, outside a unit of work the three are installed
\* or none is there, and no step of a migrate called when they are there
\* writes anything: running migrate twice leaves the state of running it
\* once.
C30_MigrateIsIdempotent ==
    /\ [](schemas.fn = 0 /\ schemas.status = "Ok"
              => \A n \in DOMAIN SchemaNames : C30_Installed(n))
    /\ [](~schemas.transaction.open
              => \/ \A n \in DOMAIN SchemaNames : C30_Installed(n)
                 \/ \A n \in DOMAIN SchemaNames : schemas.rows[n] = NoSchema)
    /\ [][ /\ C30_ReturnsAtOnce
           /\ (schemas.fn # 0 /\ C30_RunBefore /\ C30_MigrationStep)
                  => C30_TablesUnchanged ]_vars

\* migrate was run twice and both units of work are committed: both ended Ok,
\* the three schemas are installed with the values of the first run (45 in all).
C30_Witness ==
    /\ schemas.runs = 2 /\ schemas.fn = 0 /\ schemas.status = "Ok"
    /\ ~schemas.transaction.open
    /\ \A n \in DOMAIN SchemaNames : C30_Installed(n)
    /\ Len(values) = 45

====
